---- MODULE Spec2Model ----
(***************************************************************************)
(* Model of the research-paper manager's service layer:                    *)
(*   - the ai_models table with its single-default trigger                 *)
(*     (supabase/init.sql) and the AIService calls that write it,          *)
(*   - AIService.generateCompletion: model resolution, prompt              *)
(*     augmentation, provider dispatch and HTTP error handling,            *)
(*   - PDFProcessingService: convertTextToMarkdown, analyzeWithAI,         *)
(*     extractTextFromPDF and processPDF, and the upload view's batch      *)
(*     upload,                                                             *)
(*   - FirecrawlService: processQuery with its progress interval,          *)
(*     cancelCurrentSearch, saveApiKey and getApiKey,                      *)
(*   - the delete handlers of the history and results views over the       *)
(*     tables' foreign keys.                                               *)
(* Strings are TLA+ strings; JavaScript's string methods are operators     *)
(* computed character by character.                                        *)
(***************************************************************************)
EXTENDS Integers, Sequences, FiniteSets, TLC

VARIABLES
    ai_models,   \* the ai_models table: id -> row
    nextId,      \* the next id uuid_generate_v4() hands out
    writesOk,    \* no persistence write issued so far has returned an error
    result,      \* the AIService call that completed last: inputs and outcome
    text,        \* the text handed to convertTextToMarkdown
    markdown,    \* what convertTextToMarkdown returned for it
    updatedFiles,  \* the upload view's file list (UploadedFile records)
    upload,        \* where uploadAndProcessFiles stands, with its locals
    inFlight,      \* completion requests issued and not yet returned
    failures,      \* per file, the steps that have failed for it
    storage,       \* names of the objects in the 'pdfs' storage bucket
    pdf_batches,   \* the pdf_batches table (ids)
    pdf_uploads,   \* the pdf_uploads table, in insertion order
    batch_pdfs,    \* the batch_pdfs junction table
    queries,         \* per processQuery call: its position and its locals
    mockIntervalId,  \* FirecrawlService.mockIntervalId
    intervals,       \* the intervals set and not cleared, by id
    firecrawlApp,    \* FirecrawlService.firecrawlApp
    isSearching,     \* ResearchManager's isSearching flag
    searches,        \* the searches table (ids)
    papers_table,    \* the papers table
    setters,         \* per caller of setAsDefault: its position and locals
    schedule,        \* the writes of those calls, in the order they ran
    deletion,        \* the delete handler under way: its position and locals
    cachedApiKey,        \* FirecrawlService.cachedApiKey
    firecrawl_api_keys,  \* the firecrawl_api_keys table: api_key by created_at
    saveCall,            \* the saveApiKey call under way: position and locals
    initTasks,           \* keys of the initializeFirecrawlApp() calls that
                         \* saveApiKey started and did not await
    lastSaved            \* the key of the last saveApiKey that saved its key

uploadVars ==
    <<updatedFiles, upload, inFlight, failures, storage, pdf_batches,
      pdf_uploads, batch_pdfs>>

searchVars ==
    <<queries, mockIntervalId, intervals, firecrawlApp, isSearching, searches,
      papers_table>>

raceVars == <<setters, schedule>>

deleteVars == <<deletion>>

keyVars == <<cachedApiKey, firecrawl_api_keys, saveCall, initTasks, lastSaved>>

vars ==
    <<ai_models, nextId, writesOk, result, text, markdown, uploadVars,
      searchVars, raceVars, deleteVars, keyVars>>

(***************************************************************************)
(* Bounds of the model.                                                    *)
(***************************************************************************)
MaxModels == 2            \* rows ever inserted into ai_models (Spec)
MaxDispatchModels == 1    \* the same, in SpecDispatch and SpecPrompt
MaxPapers == 3            \* length of the context-record list
MaxLines == 4             \* lines of the text handed to convertTextToMarkdown

NULL == "<null>"          \* JavaScript null / undefined, SQL NULL

(***************************************************************************)
(* JavaScript string methods.                                              *)
(***************************************************************************)
UpperCase == "ABCDEFGHIJKLMNOPQRSTUVWXYZ"
LowerCase == "abcdefghijklmnopqrstuvwxyz"

\* String.prototype.includes
includes(s, k) ==
    \E i \in 1..(Len(s) - Len(k) + 1) : SubSeq(s, i, i + Len(k) - 1) = k

\* the lower-case letter of each upper-case letter
LowerOf ==
    [c \in {SubSeq(UpperCase, i, i) : i \in 1..Len(UpperCase)} |->
        LET i == CHOOSE j \in 1..Len(UpperCase) : SubSeq(UpperCase, j, j) = c
        IN  SubSeq(LowerCase, i, i)]

toLowerChar(c) == IF c \in DOMAIN LowerOf THEN LowerOf[c] ELSE c

RECURSIVE toLowerCase(_)
\* String.prototype.toLowerCase
toLowerCase(s) ==
    IF s = "" THEN ""
    ELSE toLowerChar(SubSeq(s, 1, 1)) \o toLowerCase(SubSeq(s, 2, Len(s)))

\* JavaScript truthiness of a string-or-null value
Truthy(v) == v # NULL /\ v # ""

\* an optional array: undefined, or the array `items`
Absent == [given |-> FALSE, items |-> <<>>]
List(q) == [given |-> TRUE, items |-> q]

(***************************************************************************)
(* The ai_models table (supabase/init.sql).                                *)
(***************************************************************************)
\* the id uuid_generate_v4() gives the n-th row inserted
IdOf(n) == "id-" \o ToString(n)

\* a column left out of an INSERT takes its DEFAULT
ColumnDefaults == [is_default |-> FALSE]

DefaultIds(tbl) == {i \in DOMAIN tbl : tbl[i].is_default}

\* mutant: the trigger writes the flag it is meant to clear
ensure_single_default_sets_true(tbl, newId, newRow) ==
    IF newRow.is_default
    THEN [i \in DOMAIN tbl |->
            IF i # newId THEN [tbl[i] EXCEPT !.is_default = TRUE] ELSE tbl[i]]
    ELSE tbl

\* the table without the trigger
ensure_single_default_disabled(tbl, newId, newRow) == tbl

\* BEFORE INSERT OR UPDATE row trigger: a row written with is_default = true
\* clears the flag of every other row
ensure_single_default_ai_model(tbl, newId, newRow) ==
    IF newRow.is_default
    THEN [i \in DOMAIN tbl |->
            IF i # newId THEN [tbl[i] EXCEPT !.is_default = FALSE] ELSE tbl[i]]
    ELSE tbl

\* INSERT of one row: the trigger runs before the row is stored
Insert(tbl, id, row) ==
    LET t == ensure_single_default_ai_model(tbl, id, row)
    IN  [i \in (DOMAIN t) \cup {id} |-> IF i = id THEN row ELSE t[i]]

\* INSERT of the given column values, the other columns at their DEFAULT
InsertValues(tbl, id, values) == Insert(tbl, id, values @@ ColumnDefaults)

\* the SET clause `patch` (column -> value) applied to one row
Patched(row, patch) ==
    [c \in DOMAIN row |-> IF c \in DOMAIN patch THEN patch[c] ELSE row[c]]

RECURSIVE UpdateRows(_, _, _)
\* UPDATE ... SET `patch` of the rows `ids`, one row at a time, each through
\* the trigger
UpdateRows(tbl, ids, patch) ==
    IF ids = {} THEN tbl
    ELSE LET id     == CHOOSE i \in ids : TRUE
             newRow == Patched(tbl[id], patch)
             t      == ensure_single_default_ai_model(tbl, id, newRow)
         IN  UpdateRows([t EXCEPT ![id] = newRow], ids \ {id}, patch)

\* DELETE ... WHERE id = `id`
Delete(tbl, id) == [i \in (DOMAIN tbl) \ {id} |-> tbl[i]]

(***************************************************************************)
(* AIService: the calls that write the table.  Each is the table after     *)
(* the call and its return value; an ok* flag is whether that persistence  *)
(* request succeeded.                                                      *)
(***************************************************************************)
hasDefaultModel(tbl, ok) == ok /\ Cardinality(DefaultIds(tbl)) > 0

clearDefaultModels(tbl, ok) ==
    IF ok
    THEN [tbl |-> UpdateRows(tbl, DefaultIds(tbl), [is_default |-> FALSE]),
          ret |-> TRUE]
    ELSE [tbl |-> tbl, ret |-> FALSE]

\* the branch of addModel that inserts the row as the default
addModelAsDefault(model) ==
    includes(toLowerCase(model.name), "default")

addModel(tbl, id, model, okHas, okClear, okInsert) ==
    IF addModelAsDefault(model) \/ ~hasDefaultModel(tbl, okHas)
    THEN LET cleared == clearDefaultModels(tbl, okClear).tbl
             values  == [is_default |-> TRUE] @@ model
         IN  IF okInsert
             THEN [tbl |-> InsertValues(cleared, id, values), ret |-> id]
             ELSE [tbl |-> cleared, ret |-> NULL]
    ELSE IF okInsert
         THEN [tbl |-> InsertValues(tbl, id, model), ret |-> id]
         ELSE [tbl |-> tbl, ret |-> NULL]

\* .update(...).eq('id', id).select().single(): no row with that id is an
\* error of single(), not of the write
updateModel(tbl, id, model, ok) ==
    IF ok /\ id \in DOMAIN tbl
    THEN [tbl |-> UpdateRows(tbl, {id}, model), ret |-> id]
    ELSE [tbl |-> tbl, ret |-> NULL]

deleteModel(tbl, id, ok) ==
    IF ok THEN [tbl |-> Delete(tbl, id), ret |-> TRUE]
    ELSE [tbl |-> tbl, ret |-> FALSE]

setAsDefault(tbl, id, okClear, okUpdate) ==
    LET cleared == clearDefaultModels(tbl, okClear).tbl
    IN  IF okUpdate
        THEN [tbl |-> UpdateRows(cleared, {id} \cap DOMAIN cleared,
                                 [is_default |-> TRUE]),
              ret |-> TRUE]
        ELSE [tbl |-> cleared, ret |-> FALSE]

\* the statements of setAsDefault, one persistence request each.
\* AIService.setAsDefault clears with clearDefaultModels; the CheckModels
\* page clears every row but the target
clearWrite(tbl, via, id, ok) ==
    IF via = "service" THEN clearDefaultModels(tbl, ok).tbl
    ELSE IF ok
    THEN UpdateRows(tbl, (DOMAIN tbl) \ {id}, [is_default |-> FALSE])
    ELSE tbl

setWrite_noop(tbl, id) == tbl

setWrite(tbl, id) ==
    UpdateRows(tbl, {id} \cap DOMAIN tbl, [is_default |-> TRUE])

(***************************************************************************)
(* AIService.generateCompletion.                                           *)
(***************************************************************************)
\* .select('*').eq('is_default', true).maybeSingle(): more than one matching
\* row is an error, and every error gives null
getDefaultModel_ignoresError(tbl, ok) == IF DefaultIds(tbl) # {} THEN CHOOSE i \in DefaultIds(tbl) : TRUE ELSE NULL

getDefaultModel(tbl, ok) ==
    IF ok /\ Cardinality(DefaultIds(tbl)) = 1
    THEN CHOOSE i \in DefaultIds(tbl) : TRUE
    ELSE NULL

\* .select('*').eq('id', id).maybeSingle()
getModelById(tbl, id, ok) ==
    IF ok /\ id \in DOMAIN tbl THEN id ELSE NULL

\* mutant: an unknown modelId falls back to the default configuration
ResolveModel_fallsBackToDefault(tbl, modelId, ok) ==
    IF Truthy(modelId) /\ getModelById(tbl, modelId, ok) # NULL
    THEN getModelById(tbl, modelId, ok)
    ELSE getDefaultModel(tbl, ok)

\* modelId ? getModelById(modelId) : getDefaultModel()
ResolveModel(tbl, modelId, ok) ==
    IF Truthy(modelId) THEN getModelById(tbl, modelId, ok)
    ELSE getDefaultModel(tbl, ok)

\* a || b on string-or-null values
OrElse(a, b) == IF Truthy(a) THEN a ELSE b

\* ${v} in a template literal
Interpolate(v) == IF v = NULL THEN "undefined" ELSE v

PaperBlock(paper, index) ==
    "\nPAPER " \o ToString(index + 1) \o ":\nTitle: " \o Interpolate(paper.name)
    \o "\nAuthor: " \o OrElse(paper.author, "Unknown")
    \o "\nYear: " \o OrElse(paper.year, "Unknown")
    \o "\nAbstract: " \o OrElse(paper.abstract, "No abstract provided.")
    \o "\nDOI: " \o OrElse(paper.doi, "N/A") \o "\n"

RECURSIVE JoinBlocks(_, _)
\* papers.map(PaperBlock).join('\n'), from the 0-based index `index` on
JoinBlocks(papers, index) ==
    IF index >= Len(papers) THEN ""
    ELSE PaperBlock(papers[index + 1], index)
         \o (IF index + 1 < Len(papers) THEN "\n" ELSE "")
         \o JoinBlocks(papers, index + 1)

AssistantIntro ==
    "I want you to act as an academic research assistant. I'll provide you with information about academic papers, and you'll help answer questions about them.\n\nCONTEXT:\nThe following are summaries of academic papers related to the query:\n\n"

AssistantQuestion ==
    "\n\nBased on the above academic papers, please answer the following question:\n"

AssistantInstruction ==
    "\n\nYour response should be clear, factual, and directly reference the papers when appropriate. If the papers don't contain information to answer the question, please state that clearly."

\* mutant: only the first record is enumerated
PapersPrompt_firstPaperOnly(prompt, papers) ==
    AssistantIntro \o PaperBlock(papers[1], 0) \o AssistantQuestion \o prompt
    \o AssistantInstruction

PapersPrompt(prompt, papers) ==
    AssistantIntro \o JoinBlocks(papers, 0) \o AssistantQuestion \o prompt
    \o AssistantInstruction

ContextPrompt(prompt, context) ==
    "CONTEXT: " \o context \o "\n\nQUESTION: " \o prompt
    \o "\n\nPlease provide a helpful response based on the context provided."

\* mutant: the free-text context is tested before the context records
PromptContent_contextFirst(prompt, context, papers) ==
    IF Truthy(context) THEN ContextPrompt(prompt, context)
    ELSE IF papers.given /\ Len(papers.items) > 0
    THEN PapersPrompt(prompt, papers.items)
    ELSE prompt

\* the promptContent of generateCompletion
PromptContent(prompt, context, papers) ==
    IF papers.given /\ Len(papers.items) > 0
    THEN PapersPrompt(prompt, papers.items)
    ELSE IF Truthy(context) THEN ContextPrompt(prompt, context)
    ELSE prompt

Failure(type, message) ==
    [outcome |-> "error", errorType |-> type, error |-> message]

Success(content) == [outcome |-> "ok", text |-> content]

JsonSyntaxError == "Unexpected token < in JSON at position 0"
NullPropertyError == "Cannot read properties of null (reading 'error')"

ResponseOk(resp) == resp.status >= 200 /\ resp.status <= 299

\* what generateSiliconFlowCompletion / generateOpenRouterCompletion do with
\* the answer to their fetch
HandleResponse(resp) ==
    IF resp.rejected THEN Failure("TypeError", "Failed to fetch")
    ELSE IF ~resp.parsable THEN Failure("SyntaxError", JsonSyntaxError)
    ELSE IF ~ResponseOk(resp)
    THEN IF resp.isNull THEN Failure("TypeError", NullPropertyError)
         ELSE Failure("Error", OrElse(resp.errorMessage,
                                      "API Error: " \o ToString(resp.status)))
    ELSE IF resp.choices.given /\ Len(resp.choices.items) > 0
    THEN Success(resp.choices.items[1])
    ELSE Failure("Error", "No content in API response")

DefaultBaseUrl(provider) ==
    IF provider = "siliconflow" THEN "https://api.siliconflow.cn/v1"
    ELSE "https://openrouter.ai/api/v1"

\* the one POST of an implemented provider
ChatRequest(row, promptContent) ==
    [endpoint |-> OrElse(row.base_url, DefaultBaseUrl(row.provider))
                  \o "/chat/completions",
     content  |-> promptContent]

\* mutant: the openai case is routed to the OpenRouter request builder
ImplementedProviders_withOpenAI == {"siliconflow", "openrouter", "openai"}

\* the cases of the switch that call a request builder which fetches
ImplementedProviders == {"siliconflow", "openrouter"}

\* the switch on model.provider: the requests issued and the outcome
Dispatch(row, promptContent, resp) ==
    IF row.provider \in ImplementedProviders
    THEN [fetched |-> <<ChatRequest(row, promptContent)>>] @@ HandleResponse(resp)
    ELSE [fetched |-> <<>>] @@
         (IF row.provider = "openai"
          THEN Failure("Error", "OpenAI API implementation not available yet")
          ELSE IF row.provider = "anthropic"
          THEN Failure("Error", "Anthropic API implementation not available yet")
          ELSE IF row.provider = "google"
          THEN Failure("Error", "Google API implementation not available yet")
          ELSE Failure("Error", "Provider " \o row.provider
                                \o " is not implemented yet."))

NoModelError == "No AI model available. Please configure one in AI Settings."

\* mutant: the test `if (!model)` is missing, so reading model.name throws
generateCompletion_noModelCheck(tbl, prompt, modelId, context, papers, okRead, resp) ==
    LET model == ResolveModel(tbl, modelId, okRead)
    IN  IF model = NULL
        THEN [model |-> NULL, fetched |-> <<>>]
             @@ Failure("TypeError",
                        "Cannot read properties of null (reading 'name')")
        ELSE [model |-> model]
             @@ Dispatch(tbl[model], PromptContent(prompt, context, papers), resp)

generateCompletion(tbl, prompt, modelId, context, papers, okRead, resp) ==
    LET model == ResolveModel(tbl, modelId, okRead)
    IN  IF model = NULL
        THEN [model |-> NULL, fetched |-> <<>>] @@ Failure("Error", NoModelError)
        ELSE [model |-> model]
             @@ Dispatch(tbl[model], PromptContent(prompt, context, papers), resp)

(***************************************************************************)
(* PDFProcessingService.convertTextToMarkdown.                             *)
(***************************************************************************)
IsWhitespace(c) == c \in {" ", "\t", "\r", "\n"}

RECURSIVE trimStart(_)
trimStart(s) ==
    IF s # "" /\ IsWhitespace(SubSeq(s, 1, 1))
    THEN trimStart(SubSeq(s, 2, Len(s))) ELSE s

RECURSIVE trimEnd(_)
trimEnd(s) ==
    IF s # "" /\ IsWhitespace(SubSeq(s, Len(s), Len(s)))
    THEN trimEnd(SubSeq(s, 1, Len(s) - 1)) ELSE s

\* String.prototype.trim
trim(s) == trimEnd(trimStart(s))

RECURSIVE splitFrom(_, _, _)
\* the pieces of s between newlines, from position `start` on, where `from`
\* is the first position not yet scanned
splitFrom(s, start, from) ==
    IF from > Len(s) THEN <<SubSeq(s, start, Len(s))>>
    ELSE IF SubSeq(s, from, from) = "\n"
    THEN <<SubSeq(s, start, from - 1)>> \o splitFrom(s, from + 1, from + 1)
    ELSE splitFrom(s, start, from + 1)

\* s.split('\n')
split(s) == splitFrom(s, 1, 1)

\* text.split('\n').map(line => line.trim()).filter(Boolean)
ContentLines(t) ==
    LET pieces  == split(t)
        trimmed == [i \in 1..Len(pieces) |-> trim(pieces[i])]
    IN  SelectSeq(trimmed, LAMBDA l : l # "")

\* lowerLine.match(/method(s|ology)?/): the optional group matches the empty
\* string, so the pattern matches wherever "method" occurs
MatchesMethod(lowerLine) == includes(lowerLine, "method")

\* mutant: the test for "result" comes first
SectionHeading_resultFirst(lowerLine) ==
    IF includes(lowerLine, "result") THEN "\n## Results\n\n"
    ELSE IF includes(lowerLine, "abstract") THEN "\n## Abstract\n\n"
    ELSE IF includes(lowerLine, "introduction") THEN "\n## Introduction\n\n"
    ELSE IF MatchesMethod(lowerLine) THEN "\n## Methods\n\n"
    ELSE IF includes(lowerLine, "discussion") THEN "\n## Discussion\n\n"
    ELSE IF includes(lowerLine, "conclusion") THEN "\n## Conclusion\n\n"
    ELSE NULL

\* the chain of keyword tests: the heading of the section, or NULL
SectionHeading(lowerLine) ==
    IF includes(lowerLine, "abstract") THEN "\n## Abstract\n\n"
    ELSE IF includes(lowerLine, "introduction") THEN "\n## Introduction\n\n"
    ELSE IF MatchesMethod(lowerLine) THEN "\n## Methods\n\n"
    ELSE IF includes(lowerLine, "result") THEN "\n## Results\n\n"
    ELSE IF includes(lowerLine, "discussion") THEN "\n## Discussion\n\n"
    ELSE IF includes(lowerLine, "conclusion") THEN "\n## Conclusion\n\n"
    ELSE NULL

\* one pass of the loop body for lines[i + 1] (i is the 0-based index)
EmitLine(line, i) ==
    LET heading == SectionHeading(toLowerCase(line))
    IN  IF heading # NULL THEN heading
        ELSE IF i = 0 THEN "# " \o line \o "\n\n"
        ELSE line \o "\n"

RECURSIVE convertLoop(_, _)
convertLoop(lines, i) ==
    IF i >= Len(lines) THEN ""
    ELSE EmitLine(lines[i + 1], i) \o convertLoop(lines, i + 1)

convertTextToMarkdown(t) == convertLoop(ContentLines(t), 0)

(***************************************************************************)
(* PDFProcessingService.analyzeWithAI.                                     *)
(***************************************************************************)
MetadataChunkLimit == 3000
ContentChunkLimit == 6000

Min(a, b) == IF a <= b THEN a ELSE b

\* String.prototype.slice(0, n)
slice_wholeString(s, n) == s

slice(s, n) == SubSeq(s, 1, Min(Len(s), n))

MetadataInstructions ==
    "Analyze this academic paper text and extract the following metadata. Return ONLY a JSON object with these fields (omit any fields you don't find):\n"
    \o "{\n"
    \o "  \"title\": \"paper title\",\n"
    \o "  \"authors\": \"author names\",\n"
    \o "  \"doi\": \"DOI if present\",\n"
    \o "  \"year\": \"publication year (as a number)\"\n"
    \o "}\n\n"
    \o "Important:\n"
    \o "- Look for the title at the beginning of the text\n"
    \o "- Authors are usually listed after the title\n"
    \o "- DOI might be in the format \"doi: 10.xxxx/xxxxx\" or \"https://doi.org/10.xxxx/xxxxx\"\n"
    \o "- Year is usually a 4-digit number near the beginning of the paper\n\n"
    \o "Text:\n"

ContentInstructions ==
    "Analyze this academic paper excerpt and extract the following information. Return ONLY a JSON object with these fields (omit any fields you don't find):\n"
    \o "{\n"
    \o "  \"background\": \"brief summary of the paper's background and context\",\n"
    \o "  \"research_question\": \"main research questions or objectives\",\n"
    \o "  \"major_findings\": \"key findings and results\",\n"
    \o "  \"suggestions\": \"future research suggestions or implications\"\n"
    \o "}\n\n"
    \o "Important:\n"
    \o "- Background: Look for sections like \"Introduction\", \"Background\", or \"Abstract\"\n"
    \o "- Research Question: Look for explicit questions or objectives\n"
    \o "- Major Findings: Look for results, conclusions, or key findings\n"
    \o "- Suggestions: Look for future work, implications, or recommendations\n\n"
    \o "Text:\n"

initialPrompt(md) == MetadataInstructions \o slice(md, MetadataChunkLimit)
contentPrompt(md) == ContentInstructions \o slice(md, ContentChunkLimit)

\* String.prototype.match(/\{[\s\S]*\}/): from the first "{" to the last "}"
jsonMatch(s) ==
    LET opens  == {i \in 1..Len(s) : SubSeq(s, i, i) = "{"}
        closes == {i \in 1..Len(s) : SubSeq(s, i, i) = "}"}
        first  == CHOOSE i \in opens : \A j \in opens : i <= j
        last   == CHOOSE i \in closes : \A j \in closes : i >= j
    IN  IF opens # {} /\ closes # {} /\ first < last
        THEN SubSeq(s, first, last)
        ELSE NULL

\* JSON.parse on the documents of the model: the value of each document that
\* is valid JSON; every other text is a SyntaxError
JsonDocuments ==
    [doc \in {"{}"} |-> <<>>]
    @@ [doc \in {"{\"title\": \"Coral reefs\", \"authors\": \"A. Diver\", \"doi\": \"10.1000/reef\", \"year\": 2019}"}
          |-> [title |-> "Coral reefs", authors |-> "A. Diver",
               doi |-> "10.1000/reef", year |-> 2019]]
    @@ [doc \in {"{\"title\": \"Coral reefs\"}"} |-> [title |-> "Coral reefs"]]
    @@ [doc \in {"{\"background\": \"Reefs decline\", \"research_question\": \"Why?\", \"major_findings\": \"Warming\", \"suggestions\": \"Protect\"}"}
          |-> [background |-> "Reefs decline", research_question |-> "Why?",
               major_findings |-> "Warming", suggestions |-> "Protect"]]
    @@ [doc \in {"{\"major_findings\": \"Warming\", \"title\": \"Warm seas\"}"}
          |-> [major_findings |-> "Warming", title |-> "Warm seas"]]

EmptyObject == [k \in {} |-> NULL]

\* JSON.parse(jsonMatch[0]) inside `if (jsonMatch)`
parseMatch(response) ==
    LET m == jsonMatch(response)
    IN  IF m = NULL THEN [thrown |-> FALSE, value |-> EmptyObject]
        ELSE IF m \in DOMAIN JsonDocuments
        THEN [thrown |-> FALSE,
              value |-> [k \in DOMAIN JsonDocuments[m] |-> JsonDocuments[m][k]]]
        ELSE [thrown |-> TRUE, value |-> EmptyObject]

\* the inner try/catch around it: a parse failure leaves the fields empty
parseFields(response) == parseMatch(response).value

FallbackRecord(md, year) ==
    [title |-> "", authors |-> "Unknown", year |-> year, full_text |-> md]

\* a failed content call keeps what the metadata call gave
analyzeWithAI_keepsMetadata(tbl, md, respMeta, respContent, okRead, year) ==
    LET meta    == generateCompletion(tbl, initialPrompt(md), NULL, NULL,
                                      Absent, okRead, respMeta)
        content == generateCompletion(tbl, contentPrompt(md), NULL, NULL,
                                      Absent, okRead, respContent)
    IN  IF meta.outcome # "ok"
        THEN [calls |-> <<initialPrompt(md)>>,
              value |-> FallbackRecord(md, year)]
        ELSE IF content.outcome # "ok"
        THEN [calls |-> <<initialPrompt(md), contentPrompt(md)>>,
              value |-> parseFields(meta.text) @@ FallbackRecord(md, year)]
        ELSE [calls |-> <<initialPrompt(md), contentPrompt(md)>>,
              value |-> [full_text |-> md] @@ parseFields(content.text)
                        @@ parseFields(meta.text)]

\* a parse failure of the metadata response reaches the outer catch
analyzeWithAI_parseFailureIsFatal(tbl, md, respMeta, respContent, okRead, year) ==
    LET meta    == generateCompletion(tbl, initialPrompt(md), NULL, NULL,
                                      Absent, okRead, respMeta)
        content == generateCompletion(tbl, contentPrompt(md), NULL, NULL,
                                      Absent, okRead, respContent)
    IN  IF meta.outcome # "ok" \/ parseMatch(meta.text).thrown
        THEN [calls |-> <<initialPrompt(md)>>,
              value |-> FallbackRecord(md, year)]
        ELSE IF content.outcome # "ok"
        THEN [calls |-> <<initialPrompt(md), contentPrompt(md)>>,
              value |-> FallbackRecord(md, year)]
        ELSE [calls |-> <<initialPrompt(md), contentPrompt(md)>>,
              value |-> [full_text |-> md] @@ parseFields(content.text)
                        @@ parseFields(meta.text)]

\* the completion calls issued, in order, and the record returned
analyzeWithAI(tbl, md, respMeta, respContent, okRead, year) ==
    LET meta    == generateCompletion(tbl, initialPrompt(md), NULL, NULL,
                                      Absent, okRead, respMeta)
        content == generateCompletion(tbl, contentPrompt(md), NULL, NULL,
                                      Absent, okRead, respContent)
    IN  IF meta.outcome # "ok"
        THEN [calls |-> <<initialPrompt(md)>>,
              value |-> FallbackRecord(md, year)]
        ELSE IF content.outcome # "ok"
        THEN [calls |-> <<initialPrompt(md), contentPrompt(md)>>,
              value |-> FallbackRecord(md, year)]
        ELSE [calls |-> <<initialPrompt(md), contentPrompt(md)>>,
              value |-> [full_text |-> md] @@ parseFields(content.text)
                        @@ parseFields(meta.text)]

(***************************************************************************)
(* PDFProcessingService.extractTextFromPDF and processPDF.  A PDF is       *)
(* whether pdf.js loads it and, per page, whether the page's text content  *)
(* can be read and the strings of its text items.                          *)
(***************************************************************************)
RECURSIVE join(_, _)
\* Array.prototype.join
join(items, sep) ==
    IF items = <<>> THEN ""
    ELSE IF Len(items) = 1 THEN items[1]
    ELSE items[1] \o sep \o join(Tail(items), sep)

RECURSIVE pagesText(_)
\* the loop over the pages: a page that fails is skipped
pagesText(pages) ==
    IF pages = <<>> THEN ""
    ELSE (IF pages[1].ok THEN join(pages[1].items, " ") \o "\n\n" ELSE "")
         \o pagesText(Tail(pages))

Thrown(message) == [thrown |-> TRUE, error |-> message]

LoadError == "Invalid PDF structure"

extractTextFromPDF(pdf) ==
    IF ~pdf.loads
    THEN Thrown("Could not extract text from PDF: " \o LoadError)
    ELSE LET fullText == pagesText(pdf.pages)
         IN  IF fullText = ""
             THEN Thrown("Could not extract text from PDF: "
                         \o "No text content found in PDF")
             ELSE [thrown |-> FALSE, value |-> trim(fullText)]

\* file.name.replace(/\.pdf$/i, '')
stripPdfSuffix(name) ==
    IF Len(name) >= 4
       /\ toLowerCase(SubSeq(name, Len(name) - 3, Len(name))) = ".pdf"
    THEN SubSeq(name, 1, Len(name) - 4)
    ELSE name

\* obj.key, undefined when the object has no such key
Field(obj, key) == IF key \in DOMAIN obj THEN obj[key] ELSE NULL

\* the stages invoked and progress values reported, in order, the completion
\* calls issued, and the record returned or the error thrown
processPDF(tbl, fileName, pdf, respMeta, respContent, okRead, year) ==
    LET extracted == extractTextFromPDF(pdf)
        md        == convertTextToMarkdown(extracted.value)
        analysis  == analyzeWithAI(tbl, md, respMeta, respContent, okRead,
                                   year)
        extractedData == analysis.value
    IN  IF extracted.thrown
        THEN [invoked |-> <<"extractTextFromPDF">>, progress |-> <<20>>,
              calls |-> <<>>]
             @@ Thrown(extracted.error)
        ELSE [invoked |-> <<"extractTextFromPDF", "convertTextToMarkdown",
                            "analyzeWithAI">>,
              progress |-> <<20, 40, 60, 80, 100>>,
              calls |-> analysis.calls,
              thrown |-> FALSE,
              value |-> [title |-> OrElse(Field(extractedData, "title"),
                                          stripPdfSuffix(fileName)),
                         authors |-> OrElse(Field(extractedData, "authors"),
                                            "Unknown"),
                         year |-> year,
                         full_text |-> md]
                        @@ extractedData]

(***************************************************************************)
(* The upload view: processPDF and uploadAndProcessFiles.                  *)
(***************************************************************************)
Undefined == [given |-> FALSE]
Some(v) == [given |-> TRUE, value |-> v]

\* a file as onDrop adds it to the list
PendingFile(name) ==
    [name |-> name, uploading |-> FALSE, success |-> FALSE,
     processingStatus |-> "pending", processingProgress |-> 0,
     extractedData |-> Undefined, error |-> NULL]

\* sanitizeText on the strings of the model, which hold no control
\* character and no \u escape: null stays null, a string is trimmed
sanitizeText(v) == IF v = NULL THEN NULL ELSE trim(v)

\* the row uploadAndProcessFiles inserts into pdf_uploads
pdfUploadRow(fileName, extractedData, year) ==
    LET d == IF extractedData.given THEN extractedData.value ELSE EmptyObject
    IN  [filename |-> fileName,
         title |-> sanitizeText(Field(d, "title")),
         authors |-> sanitizeText(Field(d, "authors")),
         year |-> IF "year" \in DOMAIN d /\ d.year # 0 THEN d.year ELSE year,
         doi |-> sanitizeText(Field(d, "doi")),
         background |-> sanitizeText(Field(d, "background")),
         research_question |-> sanitizeText(Field(d, "research_question")),
         major_findings |-> sanitizeText(Field(d, "major_findings")),
         suggestions |-> sanitizeText(Field(d, "suggestions")),
         full_text |-> sanitizeText(Field(d, "full_text"))]

Request(i, call, prompt) == [file |-> i, call |-> call, prompt |-> prompt]

\* the completion requests analyzeWithAI has issued when it first awaits
issuedOnAnalysisStart_bothCalls(i, md) ==
    {Request(i, "metadata", initialPrompt(md)),
     Request(i, "content", contentPrompt(md))}

issuedOnAnalysisStart(i, md) == {Request(i, "metadata", initialPrompt(md))}

\* the inner catch of the loop: the file is marked and the loop goes on
FileError(file, message) ==
    [file EXCEPT !.uploading = FALSE, !.error = message, !.success = FALSE,
                 !.processingStatus = "error", !.processingProgress = 0]

\* the head of the loop body for file i, up to the storage request; after the
\* last file the upload is done
enterFile_stopsAfterError(files, i) ==
    IF i <= Len(files) /\ \A j \in 1..(i - 1) : files[j].error = NULL
    THEN [files |-> [files EXCEPT ![i].uploading = TRUE],
          upload |-> [stage |-> "storage", i |-> i]]
    ELSE [files |-> files, upload |-> [stage |-> "done"]]

enterFile(files, i) ==
    IF i <= Len(files)
    THEN [files |-> [files EXCEPT ![i].uploading = TRUE],
          upload |-> [stage |-> "storage", i |-> i]]
    ELSE [files |-> files, upload |-> [stage |-> "done"]]

StorageError == "The resource already exists"
RecordError == "permission denied for table pdf_uploads"
LinkError == "permission denied for table batch_pdfs"

BatchId == "batch-1"
PdfId(n) == "pdf-" \o ToString(n)

(***************************************************************************)
(* FirecrawlService.processQuery and cancelCurrentSearch.  An interval is  *)
(* named by the call that set it.                                          *)
(***************************************************************************)
InitialProgress ==
    [status |-> "Research in progress...", completed |-> 0, total |-> 100,
     percentage |-> 0]

\* a processQuery call that has not been made
NotCalled ==
    [pc |-> "idle", progress |-> InitialProgress, updates |-> <<>>,
     activities |-> <<>>, delivered |-> <<>>, searchId |-> NULL,
     found |-> <<>>, returned |-> Undefined,
     \* how the discovery call ended, and whether cancelCurrentSearch ran
     \* while it was in flight
     discovery |-> "none", cancelled |-> FALSE,
     \* the key of the client the discovery call was made through, and the
     \* keys saveApiKey has put in effect between the call's start and then
     client |-> NULL, keysSince |-> {}]

\* onProgressUpdate({...progress})
reportProgress(q) == [q EXCEPT !.updates = Append(@, q.progress)]

\* activities.push(createActivityItem(type, message))
pushActivity(q, type, message) ==
    [q EXCEPT !.activities = Append(@, [type |-> type, message |-> message])]

\* onActivityUpdate([...activities])
deliverActivities(q) == [q EXCEPT !.delivered = q.activities]

\* Math.floor((completed / total) * 100) in double arithmetic, total = 100:
\* the quotient times 100 falls just below the integer for these values
RoundedDown == {29, 57, 58, 113, 114, 115, 116}

floorPercent(completed) ==
    IF completed \in RoundedDown THEN completed - 1 ELSE completed

\* the body of the interval callback on the call's progress object
tickProgress(progress) ==
    LET completed == progress.completed + 2
    IN  [progress EXCEPT !.completed = completed,
                         !.percentage = Min(99, floorPercent(completed))]

\* clearInterval(id)
clearInterval(ivs, id) == ivs \ {id}

\* the static timer state after cancelCurrentSearch, and the calls
cancelCurrentSearch_abortsCalls(id, ivs, qs) ==
    [mockIntervalId |-> NULL, intervals |-> clearInterval(ivs, id),
     queries |-> [c \in DOMAIN qs |->
                     IF qs[c].pc \in {"idle", "returned"} THEN qs[c]
                     ELSE [qs[c] EXCEPT !.pc = "returned"]]]

cancelCurrentSearch(id, ivs, qs) ==
    [mockIntervalId |-> NULL, intervals |-> clearInterval(ivs, id),
     queries |-> qs]

\* from `activities.push(... Starting research ...)` to the discovery request
startDiscovery(q, query) ==
    LET q1 == deliverActivities(pushActivity(q, "analyzing",
                  "Starting research for: \"" \o query \o "\""))
        q2 == deliverActivities(pushActivity(q1, "analyzing",
                  "Searching scholarly databases..."))
    IN  [q2 EXCEPT !.pc = "extracting"]

\* the end of the try block: final progress, activities, the result
completeQuery(q, query) ==
    LET q1 == [q EXCEPT !.progress.completed = q.progress.total,
                        !.progress.percentage = 100,
                        !.progress.status = "Research completed"]
        q2 == deliverActivities(reportProgress(q1))
    IN  [q2 EXCEPT !.pc = "returned",
                   !.returned = Some([searchId |-> q.searchId,
                                      activities |-> q.activities,
                                      data |-> q.found])]

\* the catch block
failQuery(q, message) ==
    LET q1 == deliverActivities(pushActivity(q, "info",
                  "An error occurred during research"))
        q2 == [q1 EXCEPT !.progress.status = "Research failed",
                         !.progress.percentage = 100]
        q3 == reportProgress(q2)
    IN  [q3 EXCEPT !.pc = "returned",
                   !.returned = Some([searchId |-> NULL,
                                      activities |-> q1.activities,
                                      data |-> <<>>])]

SearchIdOf(c) == "search-" \o c

(***************************************************************************)
(* FirecrawlService.saveApiKey, getApiKey and initializeFirecrawlApp.  A   *)
(* client is named by the key it was built with.                           *)
(***************************************************************************)
DEFAULT_API_KEY == "fc-default"

\* the key returned and the cache afterwards; the read is
\* .order('created_at', { ascending: false }).limit(1).single()
getApiKey(cached, tbl, okRead) ==
    IF Truthy(cached) THEN [key |-> cached, cached |-> cached]
    ELSE IF okRead /\ tbl # <<>> /\ Truthy(tbl[Len(tbl)])
    THEN [key |-> tbl[Len(tbl)], cached |-> tbl[Len(tbl)]]
    ELSE [key |-> DEFAULT_API_KEY, cached |-> cached]

\* the initializeFirecrawlApp() call at the end of saveApiKey: it has read
\* the cached key and is left pending
startInitialize(tasks, cached) == tasks \cup {cached}


(***************************************************************************)
(* SearchHistory.handleDelete and Results.handleDeleteResult, over the     *)
(* tables of init.sql with their foreign keys.  db is a record of the      *)
(* five tables.                                                            *)
(***************************************************************************)
PdfIdsOf(uploads) == {uploads[n].id : n \in 1..Len(uploads)}

\* the tables without ON DELETE CASCADE
cascade_none(db) == db

\* papers.search_id, batch_pdfs.batch_id and batch_pdfs.pdf_id are declared
\* REFERENCES ... ON DELETE CASCADE
cascade(db) ==
    [db EXCEPT
        !.papers = {r \in @ : r.search_id \in db.searches},
        !.batch_pdfs = {l \in @ : /\ l.batch_id \in db.pdf_batches
                                  /\ l.pdf_id \in PdfIdsOf(db.pdf_uploads)}]

\* the first delete of a handler: the rows that reference the parent
deleteChildren(db, type, id) ==
    CASE type = "search" -> [db EXCEPT !.papers = {r \in @ : r.search_id # id}]
      [] type = "pdf"    -> [db EXCEPT !.batch_pdfs = {l \in @ : l.pdf_id # id}]
      [] type = "batch"  -> [db EXCEPT !.batch_pdfs = {l \in @ : l.batch_id # id}]

\* the delete of the searches / pdf_uploads / pdf_batches row
deleteParent(db, type, id) ==
    cascade(
        CASE type = "search" -> [db EXCEPT !.searches = @ \ {id}]
          [] type = "pdf"    ->
                [db EXCEPT !.pdf_uploads = SelectSeq(@, LAMBDA r : r.id # id)]
          [] type = "batch"  -> [db EXCEPT !.pdf_batches = @ \ {id}])

\* .from('pdf_uploads').delete().in('id', pdfIds)
deleteDocuments(db, pdfIds) ==
    cascade([db EXCEPT
                !.pdf_uploads = SelectSeq(@, LAMBDA r : r.id \notin pdfIds)])

\* whether a failed request ends the handler: handleDelete never looks at
\* the error of a request; handleDeleteResult throws it, except for the
\* links of a document and for the documents of a batch
throwsOn(handler, type, step) ==
    /\ handler = "results"
    /\ step # "pdfs"
    /\ ~(type = "pdf" /\ step = "children")

finishDelete(d, toast) == [d EXCEPT !.pc = "done", !.toast = toast]

\* the handler after the request of a step has returned
afterDelete(d, step, ok) ==
    LET d1 == [d EXCEPT !.issued = Append(@, step),
                        !.failed = IF ok THEN @ ELSE @ \cup {step}]
    IN  IF ~ok /\ throwsOn(d.handler, d.type, step)
        THEN finishDelete(d1, "Failed to delete")
        ELSE CASE step = "select"   -> [d1 EXCEPT !.pc = "children"]
               [] step = "children" -> [d1 EXCEPT !.pc = "parent"]
               [] step = "parent"   ->
                     IF /\ d.type = "batch"
                        /\ d.batchPdfs.given
                        /\ d.batchPdfs.value # {}
                     THEN [d1 EXCEPT !.pc = "pdfs"]
                     ELSE finishDelete(d1, "deleted")
               [] step = "pdfs"     -> finishDelete(d1, "deleted")

(***************************************************************************)
(* Inputs.                                                                 *)
(***************************************************************************)
ModelIds == {IdOf(n) : n \in 1..MaxModels}

Names == {"Default GPT", "gpt-4"}
PlainNames == {"gpt-4"}
AllProviders ==
    {"siliconflow", "openrouter", "openai", "anthropic", "google", "deepseek",
     "mistral"}
StoreProviders == {"siliconflow", "openai"}
BaseUrls == {NULL, "https://proxy.example/v1"}

Prompts == {"What is new?", "Summarise the findings"}
Contexts == {NULL, "", "Search on coral reefs"}

PaperA ==
    [name |-> "Reef decline", author |-> "Ng", year |-> "2019",
     abstract |-> "Reefs shrink.", doi |-> "10.1/a"]
PaperB ==
    [name |-> "Kelp forests", author |-> "", year |-> NULL,
     abstract |-> NULL, doi |-> NULL]
Papers == {PaperA, PaperB}

RECURSIVE SeqsUpTo(_, _)
\* the sequences over S of length at most n
SeqsUpTo(S, n) ==
    IF n = 0 THEN {<<>>}
    ELSE LET shorter == SeqsUpTo(S, n - 1)
         IN  shorter \cup {Append(q, x) : q \in shorter, x \in S}

PaperLists == {Absent} \cup {List(q) : q \in SeqsUpTo(Papers, MaxPapers)}

Response(rejected, status, parsable, isNull, errorMessage, choices) ==
    [rejected |-> rejected, status |-> status, parsable |-> parsable,
     isNull |-> isNull, errorMessage |-> errorMessage, choices |-> choices]

Answered == Response(FALSE, 200, TRUE, FALSE, NULL, List(<<"An answer">>))
NetworkDown == Response(TRUE, 0, FALSE, FALSE, NULL, Absent)
Responses ==
    { Answered,
      NetworkDown,
      Response(FALSE, 200, TRUE, FALSE, NULL, List(<<>>)),
      Response(FALSE, 200, TRUE, FALSE, NULL, Absent),
      Response(FALSE, 200, FALSE, FALSE, NULL, Absent),
      Response(FALSE, 401, TRUE, FALSE, "Invalid API key", Absent),
      Response(FALSE, 429, TRUE, FALSE, "", Absent),
      Response(FALSE, 500, TRUE, FALSE, NULL, Absent),
      Response(FALSE, 502, FALSE, FALSE, NULL, Absent),
      Response(FALSE, 503, TRUE, TRUE, NULL, Absent) }

InputLines ==
    { "My Title", "Some intro", "Abstract", "This is the abstract text", "",
      "  2 METHODS ", "Results (see abstract)" }

RECURSIVE JoinLines(_)
JoinLines(ls) ==
    IF ls = <<>> THEN ""
    ELSE IF Len(ls) = 1 THEN ls[1]
    ELSE ls[1] \o "\n" \o JoinLines(Tail(ls))

Texts == {JoinLines(ls) : ls \in SeqsUpTo(InputLines, MaxLines)}

\* texts a model answers with
AIAnswers ==
    {"{\"title\": \"Coral reefs\", \"authors\": \"A. Diver\", \"doi\": \"10.1000/reef\", \"year\": 2019}",
     "Here is the JSON:\n{\"title\": \"Coral reefs\"}\nHope this helps.",
     "I could not find any metadata.",
     "{title: Coral reefs}",
     "{\"title\": \"Coral reefs\"} or {\"doi\": \"10.1000/reef\"}",
     "{\"background\": \"Reefs decline\", \"research_question\": \"Why?\", \"major_findings\": \"Warming\", \"suggestions\": \"Protect\"}",
     "{\"major_findings\": \"Warming\", \"title\": \"Warm seas\"}",
     "{}"}

AnsweredWith(content) ==
    Response(FALSE, 200, TRUE, FALSE, NULL, List(<<content>>))

AnalysisResponses == {AnsweredWith(a) : a \in AIAnswers} \cup {NetworkDown}

BodyLine(n) ==
    "Line " \o ToString(n) \o " of the body of the paper on coral reefs.\n"

RECURSIVE Body(_, _)
Body(from, to) ==
    IF from = to THEN BodyLine(from)
    ELSE LET mid == (from + to) \div 2
         IN  Body(from, mid) \o Body(mid + 1, to)

Document == "# Coral reefs\n\n" \o Body(1, 150)

MarkdownLengths == {0, 120, 2999, 3000, 3001, 6000, 6001, 7000}

Markdowns == {SubSeq(Document, 1, n) : n \in MarkdownLengths}

Years == {2026}

FileNames == {"reef-study.PDF", "notes"}

MaxPages == 2             \* pages of an uploaded PDF

FailedPage == [ok |-> FALSE, items |-> <<>>]
EmptyPage == [ok |-> TRUE, items |-> <<>>]
PageOutcomes ==
    {FailedPage, EmptyPage,
     [ok |-> TRUE, items |-> <<"Coral reefs", "A. Diver">>],
     [ok |-> TRUE, items |-> <<"Abstract">>]}

Unreadable == [loads |-> FALSE, pages |-> <<>>]
PDFs ==
    {Unreadable}
    \cup {[loads |-> TRUE, pages |-> q] : q \in SeqsUpTo(PageOutcomes, MaxPages)}

ProcessResponses ==
    {AnsweredWith("{\"title\": \"Coral reefs\", \"authors\": \"A. Diver\", \"doi\": \"10.1000/reef\", \"year\": 2019}"),
     AnsweredWith("{\"background\": \"Reefs decline\", \"research_question\": \"Why?\", \"major_findings\": \"Warming\", \"suggestions\": \"Protect\"}"),
     AnsweredWith("I could not find any metadata."),
     NetworkDown}

MaxFiles == 3             \* files of one batch upload

UploadName(k) == "paper-" \o ToString(k) \o ".pdf"

TextPdf ==
    [loads |-> TRUE,
     pages |-> <<[ok |-> TRUE, items |-> <<"Coral reefs", "A. Diver">>]>>]

UploadPDFs == {Unreadable, TextPdf}

UploadResponses ==
    {AnsweredWith("{\"title\": \"Coral reefs\", \"authors\": \"A. Diver\", \"doi\": \"10.1000/reef\", \"year\": 2019}"),
     NetworkDown}

Queries == {"q1", "q2"}

QueryText(c) == "coral reefs " \o c

MaxOverlapCompleted == 4  \* the same bound as MaxCompleted, in SpecOverlap
MaxCompleted == 104       \* progress.completed up to which intervals fire

FoundPapers ==
    <<[name |-> "Coral reefs", author |-> "A. Diver", year |-> 2019],
      [name |-> "Warm seas", author |-> "B. Swimmer", year |-> 2021]>>

\* the discovery call resolves with papers, resolves without, or rejects
Discoveries ==
    {[rejected |-> FALSE, papers |-> FoundPapers],
     [rejected |-> FALSE, papers |-> <<>>],
     [rejected |-> TRUE, papers |-> <<>>]}

ApiKeys == {"fc-key-1", "fc-key-2"}
MaxKeyRows == 2           \* rows of firecrawl_api_keys

\* SearchHistory.handleDelete, Results.handleDeleteResult
Handlers == {"history", "results"}
DeleteTypes == {"search", "pdf", "batch"}
MaxDeleteFiles == 2       \* files of the upload in SpecDelete

\* the two browser sessions that call setAsDefault
Callers == {"a", "b"}

\* AIService.setAsDefault, and setAsDefault of the CheckModels page
Vias == {"service", "page"}

(***************************************************************************)
(* The state machine.                                                      *)
(***************************************************************************)
EmptyTable == [i \in {} |-> NULL]

\* no upload has been started
UploadIdle ==
    /\ updatedFiles = <<>>
    /\ upload = [stage |-> "idle"]
    /\ inFlight = {}
    /\ failures = <<>>
    /\ storage = {}
    /\ pdf_batches = {}
    /\ pdf_uploads = <<>>
    /\ batch_pdfs = {}

\* no search has been started, the Firecrawl client is not built
SearchIdle ==
    /\ queries = [c \in Queries |-> NotCalled]
    /\ mockIntervalId = NULL
    /\ intervals = {}
    /\ firecrawlApp = NULL
    /\ isSearching = FALSE
    /\ searches = {}
    /\ papers_table = {}

\* no setAsDefault call is under way
NoSetter ==
    /\ setters = [c \in Callers |-> [pc |-> "idle"]]
    /\ schedule = <<>>

\* no delete handler is under way
NoDeletion == deletion = [pc |-> "idle"]

\* no API key has been saved or read
NoKey ==
    /\ cachedApiKey = NULL
    /\ firecrawl_api_keys = <<>>
    /\ saveCall = [pc |-> "idle"]
    /\ initTasks = {}
    /\ lastSaved = NULL

Init ==
    /\ ai_models = EmptyTable
    /\ nextId = 1
    /\ writesOk = TRUE
    /\ result = [op |-> "none"]
    /\ text = ""
    /\ markdown = NULL
    /\ UploadIdle
    /\ SearchIdle
    /\ NoSetter
    /\ NoDeletion
    /\ NoKey

InitMarkdown ==
    /\ ai_models = EmptyTable
    /\ nextId = 1
    /\ writesOk = TRUE
    /\ result = [op |-> "none"]
    /\ text \in Texts
    /\ markdown = NULL
    /\ UploadIdle
    /\ SearchIdle
    /\ NoSetter
    /\ NoDeletion
    /\ NoKey

AddModel(names, providers, baseUrls, oks, maxModels) ==
    /\ nextId <= maxModels
    /\ \E name \in names, provider \in providers, base_url \in baseUrls,
          okHas \in oks, okClear \in oks, okInsert \in oks :
          LET model == [name |-> name, provider |-> provider,
                        base_url |-> base_url]
              clears == addModelAsDefault(model)
                        \/ ~hasDefaultModel(ai_models, okHas)
              r == addModel(ai_models, IdOf(nextId), model, okHas, okClear,
                            okInsert)
          IN  /\ ai_models' = r.tbl
              /\ nextId' = IF okInsert THEN nextId + 1 ELSE nextId
              /\ writesOk' = (writesOk /\ okInsert /\ (clears => okClear))
              /\ result' = [op |-> "addModel", name |-> name, ret |-> r.ret,
                            clear |-> IF ~clears THEN "skipped"
                                      ELSE IF okClear THEN "ok" ELSE "failed"]
    /\ UNCHANGED <<text, markdown, uploadVars, raceVars, deleteVars, keyVars, searchVars>>

UpdateModel(names, providers, oks) ==
    /\ \E id \in ModelIds, ok \in oks,
          model \in {[name |-> n] : n \in names}
                    \cup {[provider |-> q] : q \in providers} :
          LET r == updateModel(ai_models, id, model, ok)
          IN  /\ ai_models' = r.tbl
              /\ writesOk' = (writesOk /\ ok)
              /\ result' = [op |-> "updateModel", id |-> id, ret |-> r.ret]
    /\ UNCHANGED <<nextId, text, markdown, uploadVars, raceVars, deleteVars, keyVars, searchVars>>

DeleteModel(oks) ==
    /\ \E id \in ModelIds, ok \in oks :
          LET r == deleteModel(ai_models, id, ok)
          IN  /\ ai_models' = r.tbl
              /\ writesOk' = (writesOk /\ ok)
              /\ result' = [op |-> "deleteModel", id |-> id, ret |-> r.ret]
    /\ UNCHANGED <<nextId, text, markdown, uploadVars, raceVars, deleteVars, keyVars, searchVars>>

SetAsDefault(oks) ==
    /\ \E id \in ModelIds, okClear \in oks, okUpdate \in oks :
          LET r == setAsDefault(ai_models, id, okClear, okUpdate)
          IN  /\ ai_models' = r.tbl
              /\ writesOk' = (writesOk /\ okClear /\ okUpdate)
              /\ result' = [op |-> "setAsDefault", id |-> id, ret |-> r.ret,
                            clear |-> IF okClear THEN "ok" ELSE "failed"]
    /\ UNCHANGED <<nextId, text, markdown, uploadVars, raceVars, deleteVars, keyVars, searchVars>>

GenerateCompletion(prompts, modelIds, contexts, paperLists, responses, oks) ==
    /\ \E prompt \in prompts, modelId \in modelIds, context \in contexts,
          papers \in paperLists, resp \in responses, okRead \in oks :
          result' =
              [op |-> "generateCompletion", prompt |-> prompt,
               modelId |-> modelId, context |-> context, papers |-> papers,
               okRead |-> okRead, resp |-> resp]
              @@ generateCompletion(ai_models, prompt, modelId, context,
                                    papers, okRead, resp)
    /\ UNCHANGED <<ai_models, nextId, writesOk, text, markdown, uploadVars, raceVars, deleteVars, keyVars, searchVars>>

ConvertTextToMarkdown ==
    /\ markdown = NULL
    /\ markdown' = convertTextToMarkdown(text)
    /\ UNCHANGED <<ai_models, nextId, writesOk, result, text, uploadVars, raceVars, deleteVars, keyVars, searchVars>>

\* analyzeWithAI keeps no state between calls: one call after each change of
\* the table shows all it can do
AnalyzeWithAI(markdowns, responses, oks, years) ==
    /\ result.op # "analyzeWithAI"
    /\ \E md \in markdowns, respMeta \in responses, respContent \in responses,
          okRead \in oks, year \in years :
          result' =
              [op |-> "analyzeWithAI", markdown |-> md, respMeta |-> respMeta,
               respContent |-> respContent, okRead |-> okRead, year |-> year]
              @@ analyzeWithAI(ai_models, md, respMeta, respContent, okRead,
                               year)
    /\ UNCHANGED <<ai_models, nextId, writesOk, text, markdown, uploadVars, raceVars, deleteVars, keyVars, searchVars>>

\* processPDF keeps no state between calls either
ProcessPDF(fileNames, pdfs, responses, oks, years) ==
    /\ result.op # "processPDF"
    /\ \E fileName \in fileNames, pdf \in pdfs, respMeta \in responses,
          respContent \in responses, okRead \in oks, year \in years :
          result' =
              [op |-> "processPDF", fileName |-> fileName, pdf |-> pdf,
               respMeta |-> respMeta, respContent |-> respContent,
               okRead |-> okRead, year |-> year]
              @@ processPDF(ai_models, fileName, pdf, respMeta, respContent,
                            okRead, year)
    /\ UNCHANGED <<ai_models, nextId, writesOk, text, markdown, uploadVars, raceVars, deleteVars, keyVars, searchVars>>

serviceVars == <<ai_models, nextId, writesOk, result, text, markdown>>

\* the user drops the files and presses the upload button; validateFiles
\* passes and the batch insert is issued
StartUpload(maxFiles) ==
    /\ upload.stage = "idle"
    /\ \E n \in 1..maxFiles :
          /\ updatedFiles' = [k \in 1..n |-> PendingFile(UploadName(k))]
          /\ failures' = [k \in 1..n |-> {}]
    /\ upload' = [stage |-> "batch"]
    /\ UNCHANGED <<serviceVars, searchVars, raceVars, deleteVars, keyVars, inFlight, storage, pdf_batches, pdf_uploads,
                   batch_pdfs>>

\* the batch insert returns; a failure ends the whole upload
CreateBatch(oks) ==
    /\ upload.stage = "batch"
    /\ \E ok \in oks :
          IF ok
          THEN LET e == enterFile(updatedFiles, 1)
               IN  /\ pdf_batches' = pdf_batches \cup {BatchId}
                   /\ updatedFiles' = e.files
                   /\ upload' = e.upload
          ELSE /\ upload' = [stage |-> "aborted"]
               /\ UNCHANGED <<pdf_batches, updatedFiles>>
    /\ UNCHANGED <<serviceVars, searchVars, raceVars, deleteVars, keyVars, inFlight, failures, storage, pdf_uploads,
                   batch_pdfs>>

\* file i fails at a step: the inner catch marks it, the loop goes on
FailFile(step, message) ==
    LET i == upload.i
        e == enterFile([updatedFiles EXCEPT ![i] = FileError(@, message)],
                       i + 1)
    IN  /\ updatedFiles' = e.files
        /\ upload' = e.upload
        /\ failures' = [failures EXCEPT ![i] = @ \cup {step}]

\* the storage upload returns
UploadToStorage(oks) ==
    /\ upload.stage = "storage"
    /\ \E ok \in oks :
          IF ok
          THEN /\ storage' = storage \cup {updatedFiles[upload.i].name}
               /\ updatedFiles' =
                      [updatedFiles EXCEPT ![upload.i].uploading = FALSE,
                                           ![upload.i].processingStatus = "pending",
                                           ![upload.i].processingProgress = 0]
               /\ upload' = [stage |-> "extract", i |-> upload.i]
               /\ UNCHANGED failures
          ELSE /\ FailFile("storage", "Failed to upload file: " \o StorageError)
               /\ UNCHANGED storage
    /\ UNCHANGED <<serviceVars, searchVars, raceVars, deleteVars, keyVars, inFlight, pdf_batches, pdf_uploads, batch_pdfs>>

\* extractTextFromPDF returns or throws; on success the text is structured
\* and analyzeWithAI issues its first completion call
ExtractText(pdfs) ==
    /\ upload.stage = "extract"
    /\ \E pdf \in pdfs :
          LET i  == upload.i
              ex == extractTextFromPDF(pdf)
          IN  IF ex.thrown
              THEN /\ updatedFiles' =
                          [updatedFiles EXCEPT ![i].processingStatus = "error",
                                               ![i].processingProgress = 0,
                                               ![i].error = ex.error]
                   /\ failures' = [failures EXCEPT ![i] = @ \cup {"extraction"}]
                   /\ upload' = [stage |-> "insert", i |-> i]
                   /\ UNCHANGED inFlight
              ELSE /\ inFlight' = inFlight \cup issuedOnAnalysisStart(
                                      i, convertTextToMarkdown(ex.value))
                   /\ upload' = [stage |-> "metadata", i |-> i, pdf |-> pdf]
                   /\ UNCHANGED <<updatedFiles, failures>>
    /\ UNCHANGED <<serviceVars, searchVars, raceVars, deleteVars, keyVars, storage, pdf_batches, pdf_uploads, batch_pdfs>>

\* processPDF of the view returns the file with its extracted data
Succeeded(file, extractedData) ==
    [file EXCEPT !.processingStatus = "success", !.processingProgress = 100,
                 !.extractedData = Some(extractedData)]

\* the metadata completion call returns or raises
MetadataReturns(responses, years) ==
    /\ upload.stage = "metadata"
    /\ \E resp \in responses, year \in years :
          LET i    == upload.i
              md   == convertTextToMarkdown(extractTextFromPDF(upload.pdf).value)
              a    == analyzeWithAI(ai_models, md, resp, NetworkDown, TRUE, year)
              done == processPDF(ai_models, updatedFiles[i].name, upload.pdf,
                                 resp, NetworkDown, TRUE, year)
              rest == {r \in inFlight : ~(r.file = i /\ r.call = "metadata")}
          IN  IF Len(a.calls) = 1
              THEN /\ inFlight' = rest
                   /\ updatedFiles' =
                          [updatedFiles EXCEPT ![i] = Succeeded(@, done.value)]
                   /\ upload' = [stage |-> "insert", i |-> i]
              ELSE /\ inFlight' = rest \cup {Request(i, "content", a.calls[2])}
                   /\ upload' = [stage |-> "content", i |-> i,
                                 pdf |-> upload.pdf, respMeta |-> resp]
                   /\ UNCHANGED updatedFiles
    /\ UNCHANGED <<serviceVars, searchVars, raceVars, deleteVars, keyVars, failures, storage, pdf_batches, pdf_uploads,
                   batch_pdfs>>

\* the content completion call returns or raises
ContentReturns(responses, years) ==
    /\ upload.stage = "content"
    /\ \E resp \in responses, year \in years :
          LET i    == upload.i
              done == processPDF(ai_models, updatedFiles[i].name, upload.pdf,
                                 upload.respMeta, resp, TRUE, year)
          IN  /\ inFlight' =
                     {r \in inFlight : ~(r.file = i /\ r.call = "content")}
              /\ updatedFiles' =
                     [updatedFiles EXCEPT ![i] = Succeeded(@, done.value)]
              /\ upload' = [stage |-> "insert", i |-> i]
    /\ UNCHANGED <<serviceVars, searchVars, raceVars, deleteVars, keyVars, failures, storage, pdf_batches, pdf_uploads,
                   batch_pdfs>>

\* the pdf_uploads insert returns
InsertRecord(oks, years) ==
    /\ upload.stage = "insert"
    /\ \E ok \in oks, year \in years :
          LET i     == upload.i
              pdfId == PdfId(i)
              row   == pdfUploadRow(updatedFiles[i].name,
                                    updatedFiles[i].extractedData, year)
          IN  IF ok
              THEN /\ pdf_uploads' = Append(pdf_uploads, [id |-> pdfId] @@ row)
                   /\ upload' = [stage |-> "link", i |-> i, pdfId |-> pdfId]
                   /\ UNCHANGED <<updatedFiles, failures>>
              ELSE /\ FailFile("insert",
                               "Failed to create PDF record: " \o RecordError)
                   /\ UNCHANGED pdf_uploads
    /\ UNCHANGED <<serviceVars, searchVars, raceVars, deleteVars, keyVars, inFlight, storage, pdf_batches, batch_pdfs>>

\* the batch_pdfs insert returns
LinkToBatch(oks) ==
    /\ upload.stage = "link"
    /\ \E ok \in oks :
          IF ok /\ BatchId \in pdf_batches /\ upload.pdfId \in PdfIdsOf(pdf_uploads)
          THEN LET e == enterFile(updatedFiles, upload.i + 1)
               IN  /\ batch_pdfs' = batch_pdfs
                          \cup {[batch_id |-> BatchId, pdf_id |-> upload.pdfId]}
                   /\ updatedFiles' = e.files
                   /\ upload' = e.upload
                   /\ UNCHANGED failures
          ELSE /\ FailFile("link",
                           "Failed to link PDF to batch: " \o LinkError)
               /\ UNCHANGED batch_pdfs
    /\ UNCHANGED <<serviceVars, searchVars, raceVars, deleteVars, keyVars, inFlight, storage, pdf_batches, pdf_uploads>>

\* handleSearch: processQuery up to its first await (saveSearchQuery)
StartQuery(callers) ==
    /\ \E c \in callers :
          /\ queries[c].pc = "idle"
          /\ LET s == cancelCurrentSearch(mockIntervalId, intervals, queries)
             IN  /\ mockIntervalId' = s.mockIntervalId
                 /\ intervals' = s.intervals
                 /\ queries' =
                        [s.queries EXCEPT
                            ![c] = reportProgress(
                                       [@ EXCEPT !.pc = "saving",
                                                 !.keysSince = {lastSaved}])]
    /\ isSearching' = TRUE
    /\ UNCHANGED <<serviceVars, uploadVars, raceVars, deleteVars, keyVars, firecrawlApp, searches, papers_table>>

\* setInterval(...) and the discovery request
BeginDiscovery(qs, c, app) ==
    /\ queries' = [qs EXCEPT ![c] = [startDiscovery(@, QueryText(c))
                                        EXCEPT !.client = app]]
    /\ mockIntervalId' = c
    /\ intervals' = intervals \cup {c}

\* saveSearchQuery returns the id, or null when the insert failed
SearchSaved(oks) ==
    /\ \E c \in Queries, ok \in oks :
          /\ queries[c].pc = "saving"
          /\ searches' = IF ok THEN searches \cup {SearchIdOf(c)} ELSE searches
          /\ writesOk' = (writesOk /\ ok)
          /\ LET q  == queries[c]
                 q1 == IF ok THEN [q EXCEPT !.searchId = SearchIdOf(c)]
                       ELSE deliverActivities(pushActivity(q, "info",
                                "Failed to save search to database"))
             IN  IF firecrawlApp = NULL
                 THEN /\ queries' =
                             [queries EXCEPT ![c] = [q1 EXCEPT !.pc = "initializing"]]
                      /\ UNCHANGED <<mockIntervalId, intervals>>
                 ELSE BeginDiscovery([queries EXCEPT ![c] = q1], c, firecrawlApp)
    /\ UNCHANGED <<ai_models, nextId, result, text, markdown, uploadVars, raceVars, deleteVars, keyVars,
                   firecrawlApp, isSearching, papers_table>>

\* initializeFirecrawlApp returns
Initialized(oks) ==
    /\ \E c \in Queries, ok \in oks, okRead \in oks :
          /\ queries[c].pc = "initializing"
          /\ LET g == getApiKey(cachedApiKey, firecrawl_api_keys, okRead)
             IN  /\ cachedApiKey' = g.cached
                 /\ IF ok
                    THEN /\ firecrawlApp' = g.key
                         /\ isSearching' = isSearching
                         /\ BeginDiscovery(queries, c, g.key)
                    ELSE /\ queries' =
                                [queries EXCEPT
                                    ![c] = failQuery(@, "Failed to initialize Firecrawl app")]
                         /\ isSearching' = FALSE
                         /\ UNCHANGED <<firecrawlApp, mockIntervalId, intervals>>
    /\ UNCHANGED <<serviceVars, uploadVars, raceVars, deleteVars,
                   firecrawl_api_keys, saveCall, initTasks, lastSaved,
                   searches, papers_table>>

\* an interval set by call c fires
Tick(maxCompleted) ==
    /\ \E c \in intervals :
          /\ queries[c].progress.completed + 2 <= maxCompleted
          /\ LET progress == tickProgress(queries[c].progress)
             IN  /\ queries' = [queries EXCEPT
                                   ![c] = reportProgress(
                                              [@ EXCEPT !.progress = progress])]
                 /\ intervals' = IF progress.completed >= 95
                                 THEN clearInterval(intervals, mockIntervalId)
                                 ELSE intervals
    /\ UNCHANGED <<serviceVars, uploadVars, raceVars, deleteVars, keyVars, mockIntervalId, firecrawlApp,
                   isSearching, searches, papers_table>>

\* the discovery request returns
ExtractReturns(discoveries) ==
    /\ \E c \in Queries, d \in discoveries :
          /\ queries[c].pc = "extracting"
          /\ IF d.rejected
             THEN /\ queries' = [queries EXCEPT
                                    ![c] = failQuery(
                                               [@ EXCEPT !.discovery = "rejected"],
                                               "Request failed")]
                  /\ isSearching' = FALSE
                  /\ UNCHANGED intervals
             ELSE LET q1 == pushActivity(
                                [queries[c] EXCEPT !.found = d.papers,
                                                   !.discovery = "resolved"],
                                "success", "Research completed successfully")
                  IN  /\ intervals' = clearInterval(intervals, mockIntervalId)
                      /\ IF d.papers # <<>> /\ q1.searchId # NULL
                         THEN /\ queries' = [queries EXCEPT
                                     ![c] = [q1 EXCEPT !.pc = "savingPapers"]]
                              /\ isSearching' = isSearching
                         ELSE /\ queries' = [queries EXCEPT
                                     ![c] = completeQuery(
                                         pushActivity(q1, "info",
                                             "No papers found matching the criteria"),
                                         QueryText(c))]
                              /\ isSearching' = FALSE
    /\ UNCHANGED <<serviceVars, uploadVars, raceVars, deleteVars, keyVars, mockIntervalId, firecrawlApp,
                   searches, papers_table>>

\* savePapers returns; an insert error is only logged
PapersSaved(oks) ==
    /\ \E c \in Queries, ok \in oks :
          /\ queries[c].pc = "savingPapers"
          /\ LET q == queries[c]
                 rows == {[search_id |-> q.searchId, name |-> q.found[n].name]
                             : n \in 1..Len(q.found)}
             IN  /\ writesOk' = (writesOk /\ ok)
                 /\ papers_table' = IF ok /\ q.searchId \in searches
                                  THEN papers_table \cup rows
                                  ELSE papers_table
                 /\ queries' = [queries EXCEPT
                        ![c] = completeQuery(
                                   pushActivity(q, "success",
                                       "Found " \o ToString(Len(q.found))
                                       \o " relevant papers"),
                                   QueryText(c))]
    /\ isSearching' = FALSE
    /\ UNCHANGED <<ai_models, nextId, result, text, markdown, uploadVars, raceVars, deleteVars, keyVars,
                   mockIntervalId, intervals, firecrawlApp, searches>>

\* handleCancelSearch
CancelSearch ==
    /\ LET s == cancelCurrentSearch(mockIntervalId, intervals, queries)
       IN  /\ mockIntervalId' = s.mockIntervalId
           /\ intervals' = s.intervals
           /\ queries' =
                  [c \in Queries |->
                      IF queries[c].pc = "extracting"
                      THEN [s.queries[c] EXCEPT !.cancelled = TRUE]
                      ELSE s.queries[c]]
    /\ isSearching' = FALSE
    /\ UNCHANGED <<serviceVars, uploadVars, raceVars, deleteVars, keyVars, firecrawlApp, searches, papers_table>>

\* a session calls setAsDefault(id): the clear request is issued
CallSetAsDefault(vias) ==
    /\ \E c \in Callers, id \in ModelIds, via \in vias :
          /\ setters[c].pc = "idle"
          /\ setters' = [setters EXCEPT
                            ![c] = [pc |-> "clearing", id |-> id, via |-> via,
                                    existed |-> id \in DOMAIN ai_models]]
    /\ UNCHANGED <<serviceVars, uploadVars, searchVars, deleteVars, keyVars, schedule>>

\* the clear request is applied (or fails, which setAsDefault ignores); the
\* set request is issued
ClearWrite(oks) ==
    /\ \E c \in Callers, ok \in oks :
          /\ setters[c].pc = "clearing"
          /\ ai_models' = clearWrite(ai_models, setters[c].via, setters[c].id, ok)
          /\ writesOk' = (writesOk /\ ok)
          /\ setters' = [setters EXCEPT ![c].pc = "setting"]
          /\ schedule' = Append(schedule, [caller |-> c, write |-> "clear"])
    /\ UNCHANGED <<nextId, result, text, markdown, uploadVars, searchVars, deleteVars, keyVars>>

\* the set request is applied or fails; setAsDefault returns
SetWrite(oks) ==
    /\ \E c \in Callers, ok \in oks :
          /\ setters[c].pc = "setting"
          /\ ai_models' = IF ok THEN setWrite(ai_models, setters[c].id)
                          ELSE ai_models
          /\ writesOk' = (writesOk /\ ok)
          /\ setters' = [setters EXCEPT
                            ![c] = [@ EXCEPT !.pc = "done"] @@ [ret |-> ok]]
          /\ schedule' = Append(schedule, [caller |-> c, write |-> "set"])
    /\ UNCHANGED <<nextId, result, text, markdown, uploadVars, searchVars, deleteVars, keyVars>>

\* the five tables the delete handlers write
Tables ==
    [searches |-> searches, papers |-> papers_table,
     pdf_batches |-> pdf_batches, pdf_uploads |-> pdf_uploads,
     batch_pdfs |-> batch_pdfs]

WriteTables(db) ==
    /\ searches' = db.searches
    /\ papers_table' = db.papers
    /\ pdf_batches' = db.pdf_batches
    /\ pdf_uploads' = db.pdf_uploads
    /\ batch_pdfs' = db.batch_pdfs

notDeleteVars ==
    <<serviceVars, raceVars, keyVars, updatedFiles, upload, inFlight, failures,
      storage, queries, mockIntervalId, intervals, firecrawlApp, isSearching>>

Listed(type) ==
    CASE type = "search" -> searches
      [] type = "pdf"    -> PdfIdsOf(pdf_uploads)
      [] type = "batch"  -> pdf_batches

\* the delete button of a listed search, document or batch is pressed; the
\* handler issues its first request
StartDelete(handlers, types) ==
    /\ deletion.pc \in {"idle", "done"}
    /\ \E handler \in handlers, type \in types :
          \E id \in Listed(type) :
             deletion' = [pc |-> IF type = "batch" THEN "select" ELSE "children",
                          handler |-> handler, type |-> type, id |-> id,
                          batchPdfs |-> Undefined, failed |-> {},
                          issued |-> <<>>, toast |-> NULL,
                          \* whether the parent delete removed child rows
                          cascaded |-> FALSE]
    /\ UNCHANGED <<notDeleteVars, searches, papers_table, pdf_batches,
                   pdf_uploads, batch_pdfs>>

\* the select of the batch's links returns
SelectBatchPdfs(oks) ==
    /\ deletion.pc = "select"
    /\ \E ok \in oks :
          LET rows == {l.pdf_id : l \in {x \in batch_pdfs :
                                            x.batch_id = deletion.id}}
              d == IF ok THEN [deletion EXCEPT !.batchPdfs = Some(rows)]
                   ELSE deletion
          IN  deletion' = afterDelete(d, "select", ok)
    /\ UNCHANGED <<notDeleteVars, searches, papers_table, pdf_batches,
                   pdf_uploads, batch_pdfs>>

\* the delete of the child rows returns
DeleteChildren(oks) ==
    /\ deletion.pc = "children"
    /\ \E ok \in oks :
          /\ WriteTables(IF ok
                         THEN deleteChildren(Tables, deletion.type, deletion.id)
                         ELSE Tables)
          /\ deletion' = afterDelete(deletion, "children", ok)
    /\ UNCHANGED notDeleteVars

\* the delete of the parent row returns
DeleteParent(oks) ==
    /\ deletion.pc = "parent"
    /\ \E ok \in oks :
          /\ WriteTables(IF ok
                         THEN deleteParent(Tables, deletion.type, deletion.id)
                         ELSE Tables)
          /\ deletion' = afterDelete(
                 [deletion EXCEPT
                     !.cascaded = ok /\ deleteChildren(Tables, deletion.type,
                                                       deletion.id) # Tables],
                 "parent", ok)
    /\ UNCHANGED notDeleteVars

\* the delete of the documents that were in the batch returns
DeleteBatchDocuments(oks) ==
    /\ deletion.pc = "pdfs"
    /\ \E ok \in oks :
          /\ WriteTables(IF ok
                         THEN deleteDocuments(Tables, deletion.batchPdfs.value)
                         ELSE Tables)
          /\ deletion' = afterDelete(deletion, "pdfs", ok)
    /\ UNCHANGED notDeleteVars

\* saveApiKey(apiKey) is called: the select of an existing row is issued
CallSaveApiKey(apiKeys) ==
    /\ saveCall.pc \in {"idle", "done"}
    /\ \E apiKey \in apiKeys :
          saveCall' = [pc |-> "selecting", apiKey |-> apiKey]
    /\ UNCHANGED <<serviceVars, uploadVars, searchVars, raceVars, deleteVars,
                   cachedApiKey, firecrawl_api_keys, initTasks, lastSaved>>

\* the select returns: existingKeys[0] is some row (limit(1) without an
\* order), or there is none or the select failed
KeySelected(oks, maxRows) ==
    /\ saveCall.pc = "selecting"
    /\ \E ok \in oks :
          IF ok /\ firecrawl_api_keys # <<>>
          THEN \E n \in 1..Len(firecrawl_api_keys) :
                  saveCall' = [pc |-> "updating", apiKey |-> saveCall.apiKey,
                               row |-> n]
          ELSE /\ Len(firecrawl_api_keys) < maxRows
               /\ saveCall' = [pc |-> "inserting", apiKey |-> saveCall.apiKey]
    /\ UNCHANGED <<serviceVars, uploadVars, searchVars, raceVars, deleteVars,
                   cachedApiKey, firecrawl_api_keys, initTasks, lastSaved>>

\* the update or insert returns; on success the key is cached,
\* initializeFirecrawlApp is started and saveApiKey resolves
KeyWritten(oks) ==
    /\ saveCall.pc \in {"updating", "inserting"}
    /\ \E ok \in oks :
          IF ok
          THEN /\ firecrawl_api_keys' =
                      IF saveCall.pc = "updating"
                      THEN [firecrawl_api_keys EXCEPT ![saveCall.row] = saveCall.apiKey]
                      ELSE Append(firecrawl_api_keys, saveCall.apiKey)
               /\ cachedApiKey' = saveCall.apiKey
               /\ initTasks' = startInitialize(initTasks, saveCall.apiKey)
               /\ lastSaved' = saveCall.apiKey
               /\ queries' =
                      [c \in Queries |->
                          IF queries[c].pc \in {"saving", "initializing"}
                          THEN [queries[c] EXCEPT
                                   !.keysSince = @ \cup {saveCall.apiKey}]
                          ELSE queries[c]]
               /\ saveCall' = [pc |-> "done", apiKey |-> saveCall.apiKey,
                               saved |-> TRUE]
          ELSE /\ saveCall' = [pc |-> "done", apiKey |-> saveCall.apiKey,
                               saved |-> FALSE]
               /\ UNCHANGED <<firecrawl_api_keys, cachedApiKey, initTasks,
                              lastSaved, queries>>
    /\ UNCHANGED <<serviceVars, uploadVars, raceVars, deleteVars,
                   mockIntervalId, intervals, firecrawlApp, isSearching,
                   searches, papers_table>>

\* a pending initializeFirecrawlApp builds its client, or its import fails
InitTaskDone(oks) ==
    /\ \E apiKey \in initTasks, ok \in oks :
          /\ initTasks' = initTasks \ {apiKey}
          /\ firecrawlApp' = IF ok THEN apiKey ELSE firecrawlApp
    /\ UNCHANGED <<serviceVars, uploadVars, raceVars, deleteVars, queries,
                   mockIntervalId, intervals, isSearching, searches,
                   papers_table, cachedApiKey, firecrawl_api_keys, saveCall,
                   lastSaved>>

\* the settings calls and model resolution
Next ==
    \/ AddModel(Names, StoreProviders, {NULL}, BOOLEAN, MaxModels)
    \/ UpdateModel(Names, StoreProviders, BOOLEAN)
    \/ DeleteModel(BOOLEAN)
    \/ SetAsDefault(BOOLEAN)
    \/ GenerateCompletion({"What is new?"}, {NULL, ""} \cup ModelIds, {NULL},
                          {Absent}, {Answered, NetworkDown}, BOOLEAN)

Spec == Init /\ [][Next]_vars

\* provider dispatch and the handling of the provider's answer
NextDispatch ==
    \/ AddModel(PlainNames, AllProviders, BaseUrls, {TRUE}, MaxDispatchModels)
    \/ GenerateCompletion({"What is new?"}, {NULL, IdOf(1)}, {NULL}, {Absent},
                          Responses, {TRUE})

SpecDispatch == Init /\ [][NextDispatch]_vars

\* prompt augmentation
NextPrompt ==
    \/ AddModel(PlainNames, ImplementedProviders, {NULL}, {TRUE},
                MaxDispatchModels)
    \/ GenerateCompletion(Prompts, {NULL}, Contexts, PaperLists,
                          {Answered, NetworkDown}, {TRUE})

SpecPrompt == Init /\ [][NextPrompt]_vars

\* markdown structuring of one extracted text
NextMarkdown == ConvertTextToMarkdown

SpecMarkdown == InitMarkdown /\ [][NextMarkdown]_vars

\* the two-call analysis of one markdown document
NextAnalyze ==
    \/ AddModel(PlainNames, ImplementedProviders, {NULL}, {TRUE},
                MaxDispatchModels)
    \/ AnalyzeWithAI(Markdowns, AnalysisResponses, {TRUE}, Years)

SpecAnalyze == Init /\ [][NextAnalyze]_vars

\* the processing of one uploaded PDF
NextProcess ==
    \/ AddModel(PlainNames, ImplementedProviders, {NULL}, {TRUE},
                MaxDispatchModels)
    \/ ProcessPDF(FileNames, PDFs, ProcessResponses, {TRUE}, Years)

SpecProcess == Init /\ [][NextProcess]_vars

\* one batch upload; the model configuration is set up before it starts
NextUpload ==
    \/ upload.stage = "idle"
         /\ AddModel(PlainNames, ImplementedProviders, {NULL}, {TRUE},
                     MaxDispatchModels)
    \/ StartUpload(MaxFiles)
    \/ CreateBatch(BOOLEAN)
    \/ UploadToStorage(BOOLEAN)
    \/ ExtractText(UploadPDFs)
    \/ MetadataReturns(UploadResponses, Years)
    \/ ContentReturns(UploadResponses, Years)
    \/ InsertRecord(BOOLEAN, Years)
    \/ LinkToBatch(BOOLEAN)

SpecUpload == Init /\ [][NextUpload]_vars

\* one search, its progress interval and its cancellation
NextSearch ==
    \/ StartQuery({"q1"})
    \/ SearchSaved(BOOLEAN)
    \/ Initialized(BOOLEAN)
    \/ Tick(MaxCompleted)
    \/ ExtractReturns(Discoveries)
    \/ PapersSaved(BOOLEAN)
    \/ CancelSearch

SpecSearch == Init /\ [][NextSearch]_vars

\* two sessions whose setAsDefault calls overlap
NextRace ==
    \/ AddModel(PlainNames, {"siliconflow"}, {NULL}, {TRUE}, MaxModels)
    \/ CallSetAsDefault(Vias)
    \/ ClearWrite(BOOLEAN)
    \/ SetWrite(BOOLEAN)

SpecRace == Init /\ [][NextRace]_vars

\* an upload and a search fill the tables; the delete handlers empty them
NextDelete ==
    \/ StartUpload(MaxDeleteFiles)
    \/ CreateBatch({TRUE})
    \/ UploadToStorage({TRUE})
    \/ ExtractText({TextPdf})
    \/ MetadataReturns({NetworkDown}, Years)
    \/ InsertRecord({TRUE}, Years)
    \/ LinkToBatch({TRUE})
    \/ StartQuery({"q1"})
    \/ SearchSaved({TRUE})
    \/ Initialized({TRUE})
    \/ ExtractReturns({[rejected |-> FALSE, papers |-> FoundPapers]})
    \/ PapersSaved({TRUE})
    \/ StartDelete(Handlers, DeleteTypes)
    \/ SelectBatchPdfs(BOOLEAN)
    \/ DeleteChildren(BOOLEAN)
    \/ DeleteParent(BOOLEAN)
    \/ DeleteBatchDocuments(BOOLEAN)

SpecDelete == Init /\ [][NextDelete]_vars

\* two overlapping processQuery calls, a few interval firings each
NextOverlap ==
    \/ StartQuery(Queries)
    \/ SearchSaved({TRUE})
    \/ Initialized({TRUE})
    \/ Tick(MaxOverlapCompleted)
    \/ ExtractReturns(Discoveries)
    \/ PapersSaved({TRUE})

SpecOverlap == Init /\ [][NextOverlap]_vars

\* keys are saved while searches are made
NextKey ==
    \/ CallSaveApiKey(ApiKeys)
    \/ KeySelected(BOOLEAN, MaxKeyRows)
    \/ KeyWritten(BOOLEAN)
    \/ InitTaskDone(BOOLEAN)
    \/ StartQuery({"q1"})
    \/ SearchSaved({TRUE})
    \/ Initialized(BOOLEAN)
    \/ ExtractReturns({[rejected |-> FALSE, papers |-> <<>>]})

SpecKey == Init /\ [][NextKey]_vars

(***************************************************************************)
(* Properties.                                                             *)
(***************************************************************************)
Completed == result.op = "generateCompletion"
Requested == Completed /\ result.fetched # <<>>
StartsWith(s, p) == Len(s) >= Len(p) /\ SubSeq(s, 1, Len(p)) = p

\* C1: after any sequence of non-overlapping addModel, setAsDefault,
\* updateModel and deleteModel calls whose persistence writes all succeed, at
\* most one row of ai_models has is_default = true.
C1_AtMostOneDefault ==
    writesOk => Cardinality(DefaultIds(ai_models)) <= 1

\* the default was taken over by a second row and then given back to the first
C1_Witness ==
    /\ writesOk
    /\ result.op = "setAsDefault" /\ result.id = IdOf(1)
    /\ DOMAIN ai_models = {IdOf(1), IdOf(2)}
    /\ includes(toLowerCase(ai_models[IdOf(2)].name), "default")
    /\ DefaultIds(ai_models) = {IdOf(1)}

\* C2: generateCompletion without a modelId on an empty ai_models table fails
\* with the no-model error and issues no HTTP request.
C2_NoModelConfigured ==
    (Completed /\ ~Truthy(result.modelId) /\ DOMAIN ai_models = {})
        => /\ result.outcome = "error"
           /\ result.error
                = "No AI model available. Please configure one in AI Settings."
           /\ result.fetched = <<>>

C2_Witness ==
    /\ Completed /\ result.modelId = NULL /\ result.okRead
    /\ DOMAIN ai_models = {}
    /\ result.outcome = "error"

\* C3: with a modelId, only the row of that id is used, and a modelId naming
\* no row fails with the no-model error even when a default exists; without a
\* modelId the row flagged as default is used.
C3_ModelResolution ==
    Completed =>
        /\ Truthy(result.modelId) => result.model \in {result.modelId, NULL}
        /\ (Truthy(result.modelId) /\ result.okRead
                /\ result.modelId \in DOMAIN ai_models)
             => result.model = result.modelId
        /\ (Truthy(result.modelId) /\ result.modelId \notin DOMAIN ai_models)
             => /\ result.outcome = "error"
                /\ result.error
                     = "No AI model available. Please configure one in AI Settings."
                /\ result.fetched = <<>>
        /\ (~Truthy(result.modelId) /\ result.okRead
                /\ DefaultIds(ai_models) # {})
             => /\ result.model # NULL
                /\ ai_models[result.model].is_default

\* a modelId naming no row, while another row is the default
C3_Witness ==
    /\ Completed /\ Truthy(result.modelId) /\ result.okRead
    /\ result.modelId \notin DOMAIN ai_models
    /\ DefaultIds(ai_models) # {}
    /\ result.model = NULL

\* C4: the prompt sent is exactly one of three forms, in priority order: the
\* research-assistant template without the free-text context when there are
\* context records; else the CONTEXT/QUESTION wrapping when a context is
\* given; else the caller's prompt unmodified.
C4_PromptForms ==
    Requested =>
        LET content == result.fetched[1].content
            wrapped == "CONTEXT: " \o result.context \o "\n\nQUESTION: "
                       \o result.prompt
            intro   == "I want you to act as an academic research assistant."
        IN  IF result.papers.given /\ result.papers.items # <<>>
            THEN /\ StartsWith(content, intro)
                 /\ ~StartsWith(content, "CONTEXT: ")
                 /\ Truthy(result.context) => ~includes(content, result.context)
            ELSE IF Truthy(result.context)
            THEN StartsWith(content, wrapped) /\ ~includes(content, intro)
            ELSE content = result.prompt

\* both a context and context records were given, and a request went out
C4_Witness ==
    /\ Requested
    /\ Truthy(result.context)
    /\ result.papers.given /\ Len(result.papers.items) >= 2

\* the first position >= from at which k occurs in s, or 0
IndexFrom(s, k, from) ==
    LET hits == {i \in from..(Len(s) - Len(k) + 1) :
                    SubSeq(s, i, i + Len(k) - 1) = k}
    IN  IF hits = {} THEN 0
        ELSE CHOOSE i \in hits : \A j \in hits : i <= j

RECURSIVE TitlesInOrder(_, _, _, _)
\* the titles of papers[i..] occur in s one after another from `from` on
TitlesInOrder(s, papers, i, from) ==
    IF i > Len(papers) THEN TRUE
    ELSE LET at == IndexFrom(s, papers[i].name, from)
         IN  at # 0 /\ TitlesInOrder(s, papers, i + 1,
                                     at + Len(papers[i].name))

\* C5: for a non-empty list of context records the prompt sent contains every
\* record's title in list order, the caller's prompt, and the instruction to
\* state clearly when the records lack the information.
C5_PapersPrompt ==
    (Requested /\ result.papers.given /\ result.papers.items # <<>>) =>
        LET content == result.fetched[1].content
        IN  /\ TitlesInOrder(content, result.papers.items, 1, 1)
            /\ includes(content, result.prompt)
            /\ includes(content,
                   "If the papers don't contain information to answer the question, please state that clearly.")

\* three records, not all the same
C5_Witness ==
    /\ Requested
    /\ result.papers.given /\ Len(result.papers.items) = 3
    /\ result.papers.items[1] # result.papers.items[3]

IsNotImplementedError(message) ==
    \/ includes(message, "is not implemented yet")
    \/ includes(message, "implementation not available yet")

C7_ErrorCarriesMessageOrStatus ==
    (Requested /\ ~result.resp.rejected /\ ~ResponseOk(result.resp)) =>
        /\ result.outcome = "error"
        /\ IF result.resp.parsable /\ ~result.resp.isNull
              /\ Truthy(result.resp.errorMessage)
           THEN result.error = result.resp.errorMessage
           ELSE includes(result.error, ToString(result.resp.status))

\* the lines of the markdown that hold text
OutputLines(md) == SelectSeq(split(md), LAMBDA l : l # "")

Keywords ==
    <<"abstract", "introduction", "method", "result", "discussion",
      "conclusion">>
Headings ==
    <<"## Abstract", "## Introduction", "## Methods", "## Results",
      "## Discussion", "## Conclusion">>

\* the keywords the lowercased line contains, as indices of Keywords
KeywordsIn(line) ==
    LET lower == toLowerCase(line)
    IN  {k \in 1..Len(Keywords) : includes(lower, Keywords[k])}

HasKeyword(line) == KeywordsIn(line) # {}

FirstKeyword(line) ==
    LET found == KeywordsIn(line)
    IN  CHOOSE k \in found : \A j \in found : k <= j

Converted == markdown # NULL

\* C8: every non-empty input line whose lowercased form contains a section
\* keyword produces the heading of the first matching section, in the order
\* abstract, introduction, method, result, discussion, conclusion, and is not
\* itself emitted as body text or as the title.
C8_KeywordLineBecomesHeading ==
    Converted =>
        LET lines == ContentLines(text)
            out   == OutputLines(markdown)
        IN  /\ Len(out) = Len(lines)
            /\ \A i \in 1..Len(lines) :
                  HasKeyword(lines[i]) =>
                      /\ out[i] = Headings[FirstKeyword(lines[i])]
                      /\ out[i] # lines[i]
                      /\ out[i] # "# " \o lines[i]

\* a line holding two keywords, the later one of the order first in the line
C8_Witness ==
    /\ Converted
    /\ \E i \in 1..Len(ContentLines(text)) :
          /\ ContentLines(text)[i] = "Results (see abstract)"
          /\ OutputLines(markdown)[i] = "## Abstract"

\* C9: the lines 'My Title', 'Some intro', 'Abstract', 'This is the abstract
\* text' give, in order, the heading '# My Title', the body line 'Some intro',
\* one heading '## Abstract' and the body line 'This is the abstract text'.
C9_ExampleKeepsBodyLine ==
    (Converted
        /\ text = "My Title\nSome intro\nAbstract\nThis is the abstract text")
        => OutputLines(markdown)
             = <<"# My Title", "Some intro", "## Abstract",
                 "This is the abstract text">>

\* C10: the first non-empty trimmed line is emitted as the '# ' title, the
\* output holds exactly one top-level heading, and every other line without
\* a section keyword is emitted verbatim as one body line, in input order.
C10_FirstLineIsTitle ==
    (Converted /\ ContentLines(text) # <<>>) =>
        LET lines == ContentLines(text)
            out   == OutputLines(markdown)
        IN  /\ Len(out) = Len(lines)
            /\ out[1] = "# " \o lines[1]
            /\ Cardinality({i \in 1..Len(out) : StartsWith(out[i], "# ")}) = 1
            /\ \A i \in 2..Len(lines) :
                  ~HasKeyword(lines[i]) => out[i] = lines[i]

Analyzed == result.op = "analyzeWithAI"
Raised(resp) == resp.rejected
UsableModel == DefaultIds(ai_models) # {}

\* C11: analyzeWithAI embeds exactly the first min(len, 3000) characters of
\* the markdown in the metadata prompt and the first min(len, 6000) in the
\* content prompt; a shorter markdown is embedded whole and unpadded.
C11_PromptChunks ==
    Analyzed =>
        LET md == result.markdown
            n  == Len(md)
            embedded(prompt, head) ==
                SubSeq(prompt, Len(head) + 1, Len(prompt))
        IN  /\ Len(result.calls) >= 1
            /\ StartsWith(result.calls[1], MetadataInstructions)
            /\ embedded(result.calls[1], MetadataInstructions)
                 = SubSeq(md, 1, IF n < 3000 THEN n ELSE 3000)
            /\ n <= 3000 => embedded(result.calls[1], MetadataInstructions) = md
            /\ Len(result.calls) >= 2 =>
                 /\ StartsWith(result.calls[2], ContentInstructions)
                 /\ embedded(result.calls[2], ContentInstructions)
                      = SubSeq(md, 1, IF n < 6000 THEN n ELSE 6000)
                 /\ n <= 6000
                      => embedded(result.calls[2], ContentInstructions) = md

\* a markdown longer than both limits went through both calls
C11_Witness ==
    /\ Analyzed /\ Len(result.markdown) > 6000
    /\ Len(result.calls) = 2
    /\ Len(result.calls[1]) = Len(MetadataInstructions) + 3000
    /\ Len(result.calls[2]) = Len(ContentInstructions) + 6000

AnswerText(resp) == resp.choices.items[1]
Returned(resp) == UsableModel /\ ~Raised(resp)
Undecodable ==
    {"I could not find any metadata.",
     "{title: Coral reefs}",
     "{\"title\": \"Coral reefs\"} or {\"doi\": \"10.1000/reef\"}"}
FieldsOf(rec) == DOMAIN rec \ {"full_text"}

\* C12: when the metadata (or the content) response holds no decodable JSON
\* object, analyzeWithAI still issues both completion calls and returns a
\* record whose full_text is the markdown and that holds no field from the
\* undecodable response: its other fields are those of the other response.
C12_ParseFailureNotFatal ==
    (Analyzed /\ Returned(result.respMeta) /\ Returned(result.respContent)) =>
        LET meta    == AnswerText(result.respMeta)
            content == AnswerText(result.respContent)
            value   == result.value
        IN  (meta \in Undecodable \/ content \in Undecodable) =>
              /\ Len(result.calls) = 2
              /\ value.full_text = result.markdown
              /\ meta \in Undecodable =>
                   /\ FieldsOf(value) = FieldsOf(parseFields(content))
                   /\ \A k \in FieldsOf(value) : value[k] = parseFields(content)[k]
              /\ content \in Undecodable =>
                   /\ FieldsOf(value) = FieldsOf(parseFields(meta))
                   /\ \A k \in FieldsOf(value) : value[k] = parseFields(meta)[k]

\* braces that are no JSON in the metadata answer, a full content answer
C12_Witness ==
    /\ Analyzed /\ Returned(result.respMeta) /\ Returned(result.respContent)
    /\ AnswerText(result.respMeta) = "{title: Coral reefs}"
    /\ DOMAIN result.value
         = {"background", "research_question", "major_findings",
            "suggestions", "full_text"}
    /\ result.value.major_findings = "Warming"
    /\ Len(result.calls) = 2

\* C13: when either completion call raises, analyzeWithAI returns exactly the
\* fallback record (empty title, authors 'Unknown', the current year, the
\* markdown as full_text), with no field from the other call.
C13_FallbackRecord ==
    (Analyzed /\ (~Returned(result.respMeta) \/ ~Returned(result.respContent)))
        => result.value
             = [title |-> "", authors |-> "Unknown", year |-> result.year,
                full_text |-> result.markdown]

\* the metadata call gave every field, then the content call raised
C13_Witness ==
    /\ Analyzed /\ Returned(result.respMeta) /\ Raised(result.respContent)
    /\ "doi" \in DOMAIN parseFields(AnswerText(result.respMeta))
    /\ Len(result.calls) = 2
    /\ result.value.title = ""

Processed == result.op = "processPDF"
PageText(page) == IF page.ok THEN join(page.items, " ") ELSE ""
NoExtractableText(pdf) ==
    pdf.loads /\ \A i \in 1..Len(pdf.pages) : PageText(pdf.pages[i]) = ""

\* C14: a PDF from which no text can be extracted (zero pages, or every page
\* yields empty text or fails) makes extractTextFromPDF fail with the
\* no-text-content error, and processPDF invokes neither
\* convertTextToMarkdown nor analyzeWithAI for it.
C14_NoTextFailsExtraction ==
    (Processed /\ NoExtractableText(result.pdf)) =>
        /\ result.thrown
        /\ includes(result.error, "No text content found in PDF")
        /\ result.invoked = <<"extractTextFromPDF">>
        /\ result.calls = <<>>

\* C16: every one of title, authors, doi, year, background,
\* research_question, major_findings and suggestions that is absent from the
\* model's JSON responses is omitted from the record processPDF returns.
C16_NoInventedField ==
    (Processed /\ ~result.thrown
       /\ Returned(result.respMeta) /\ Returned(result.respContent)) =>
        LET answered == DOMAIN parseFields(AnswerText(result.respMeta))
                        \cup DOMAIN parseFields(AnswerText(result.respContent))
        IN  \A k \in {"title", "authors", "doi", "year", "background",
                      "research_question", "major_findings", "suggestions"} :
                k \notin answered => k \notin DOMAIN result.value

UploadDone == upload.stage = "done"
RowsOf(name) ==
    {n \in 1..Len(pdf_uploads) : pdf_uploads[n].filename = name}
Persisted(name) ==
    \E n \in RowsOf(name) :
        [batch_id |-> BatchId, pdf_id |-> pdf_uploads[n].id] \in batch_pdfs
FailureMessage(step) ==
    CASE step = "storage" -> "Failed to upload file: The resource already exists"
      [] step = "extraction"
           -> "Could not extract text from PDF: Invalid PDF structure"
      [] step = "insert"
           -> "Failed to create PDF record: permission denied for table pdf_uploads"
      [] step = "link"
           -> "Failed to link PDF to batch: permission denied for table batch_pdfs"

\* C15: in a batch upload of N files, a failure of file k (storage upload,
\* text extraction, record insert or batch link) does not stop the loop:
\* when the upload is done every file without a failure has been uploaded,
\* processed and persisted with its batch link, and file k has
\* processingStatus 'error' and the message of its own failure.
C15_FailureDoesNotStopLoop ==
    UploadDone =>
        \A k \in 1..Len(updatedFiles) :
            LET file == updatedFiles[k]
            IN  /\ failures[k] = {} =>
                     /\ file.name \in storage
                     /\ file.processingStatus = "success"
                     /\ file.extractedData.given
                     /\ Persisted(file.name)
                /\ failures[k] # {} =>
                     /\ file.processingStatus = "error"
                     /\ file.error \in {FailureMessage(f) : f \in failures[k]}

\* three files, the second failed text extraction, the others are persisted
C15_Witness ==
    /\ UploadDone /\ Len(updatedFiles) = 3
    /\ failures = <<{}, {"extraction"}, {}>>
    /\ updatedFiles[2].processingStatus = "error"
    /\ Persisted(updatedFiles[1].name) /\ Persisted(updatedFiles[3].name)

InLoop == upload.stage \in {"storage", "extract", "metadata", "content",
                            "insert", "link"}
Finished(file) ==
    \/ file.processingStatus = "error" /\ file.error # NULL
    \/ file.processingStatus = "success" /\ Persisted(file.name)
Untouched(file) ==
    /\ file.processingStatus = "pending" /\ ~file.uploading
    /\ file.name \notin storage /\ RowsOf(file.name) = {}

\* C17: during a batch upload at most one completion request is in flight:
\* the content call of a document is in flight only after its metadata call
\* has returned, and document i+1 is not touched before document i has
\* finished (persisted or marked as error).
C17_OneCompletionInFlight ==
    /\ Cardinality(inFlight) <= 1
    /\ \A r \in inFlight :
          /\ InLoop /\ r.file = upload.i
          /\ r.call = "metadata" => upload.stage = "metadata"
          /\ r.call = "content" =>
                upload.stage = "content" /\ ~Raised(upload.respMeta)
    /\ InLoop =>
          /\ \A j \in 1..(upload.i - 1) : Finished(updatedFiles[j])
          /\ \A j \in (upload.i + 1)..Len(updatedFiles) :
                Untouched(updatedFiles[j])

\* the content call of the second document is in flight
C17_Witness ==
    /\ InLoop /\ upload.i = 2 /\ Len(updatedFiles) = 3
    /\ \E r \in inFlight : r.call = "content" /\ r.file = 2
    /\ updatedFiles[1].processingStatus = "success"

Last(q) == q[Len(q)]
SavedPapers(searchId) == {r.name : r \in {x \in papers_table : x.search_id = searchId}}

\* C18: cancelCurrentSearch called while the discovery call of a processQuery
\* is in flight only stops the progress interval: the call goes on, and when
\* the discovery call has resolved processQuery saves the papers found,
\* delivers the final progress (100%, 'Research completed') and the
\* activities, and returns its result.
C18_CancelOnlyStopsTimer ==
    \A c \in Queries :
        LET q == queries[c]
        IN  q.cancelled =>
              /\ c \notin intervals
              /\ q.pc \in {"extracting", "savingPapers", "returned"}
              /\ q.pc = "extracting" <=> q.discovery = "none"
              /\ (q.pc = "returned" /\ q.discovery = "resolved") =>
                    /\ q.returned.given
                    /\ q.returned.value.data = q.found
                    /\ q.returned.value.searchId = q.searchId
                    /\ Len(q.updates) > 0
                    /\ Last(q.updates).percentage = 100
                    /\ Last(q.updates).status = "Research completed"
                    /\ q.delivered = q.activities
                    /\ \E n \in 1..Len(q.delivered) :
                          q.delivered[n].message = "Research completed successfully"
                    /\ (writesOk /\ q.found # <<>>) =>
                          SavedPapers(q.searchId)
                            = {q.found[n].name : n \in 1..Len(q.found)}

\* cancelled while the interval was running, then the papers were saved
C18_Witness ==
    \E c \in Queries :
        /\ queries[c].cancelled /\ queries[c].pc = "returned"
        /\ queries[c].discovery = "resolved"
        /\ Len(queries[c].updates) > 3
        /\ SavedPapers(SearchIdOf(c)) = {"Coral reefs", "Warm seas"}
        /\ ~isSearching

BothDone == \A c \in Callers : setters[c].pc = "done"
TwoExisting ==
    /\ setters["a"].id # setters["b"].id
    /\ setters["a"].existed /\ setters["b"].existed
Pos(c, w) ==
    CHOOSE n \in 1..Len(schedule) : schedule[n] = [caller |-> c, write |-> w]
ClearsBeforeSets ==
    \A c \in Callers, d \in Callers : Pos(c, "clear") < Pos(d, "set")
ClearAfterOtherSet ==
    \E c \in Callers, d \in Callers :
        c # d /\ Pos(d, "set") < Pos(c, "clear")
LastSetter == CHOOSE c \in Callers : \A d \in Callers : Pos(d, "set") <= Pos(c, "set")

\* C19, as claimed: when the clear writes of two overlapping setAsDefault
\* calls for two different existing configurations both run before the two
\* set writes, two configurations have is_default = true after both calls.
C19_RaceLeavesTwoDefaults ==
    (BothDone /\ TwoExisting /\ writesOk /\ ClearsBeforeSets)
        => Cardinality(DefaultIds(ai_models)) = 2

\* C19, amended: however the four writes of two overlapping setAsDefault
\* calls for two different existing configurations interleave, after both
\* calls have completed with all writes succeeding exactly one configuration
\* has is_default = true: the target of the set write that ran last (the
\* table's trigger clears the other).
C19_RaceLeavesLastSetter ==
    (BothDone /\ TwoExisting /\ writesOk)
        => DefaultIds(ai_models) = {setters[LastSetter].id}

\* both clears ran before both sets
C19_Witness ==
    /\ BothDone /\ TwoExisting /\ writesOk /\ ClearsBeforeSets
    /\ setters["a"].via = "service" /\ setters["b"].via = "service"
    /\ Cardinality(DefaultIds(ai_models)) = 1

\* C20, as claimed: when the clear write of one of two overlapping
\* setAsDefault calls runs after the set write of the other, no configuration
\* has is_default = true after both calls have completed with all writes
\* succeeding.
C20_RaceLeavesNoDefault ==
    (BothDone /\ TwoExisting /\ writesOk /\ ClearAfterOtherSet)
        => DefaultIds(ai_models) = {}

\* C20, amended: two overlapping setAsDefault calls for two different
\* existing configurations never leave zero defaults: after both calls have
\* completed with all writes succeeding some configuration has
\* is_default = true, also when one call's clear write wiped the default the
\* other call had just set.
C20_RaceNeverLeavesNoDefault ==
    (BothDone /\ TwoExisting /\ writesOk) => DefaultIds(ai_models) # {}

\* the clear of one call ran after the set of the other
C20_Witness ==
    /\ BothDone /\ TwoExisting /\ writesOk /\ ClearAfterOtherSet
    /\ DefaultIds(ai_models) # {}

\* ---- C21 ----
\* C21: when the clear-all-defaults write fails, setAsDefault and addModel
\* issue no write with is_default = true, leave every configuration's
\* default flag as it was and report failure (false / null).
C21_FailedClearBlocksDefault ==
    [][/\ (result'.op = "setAsDefault" /\ result'.clear = "failed")
          => /\ ai_models' = ai_models
             /\ result'.ret = FALSE
       /\ (result'.op = "addModel" /\ result'.clear = "failed")
          => /\ DefaultIds(ai_models') = DefaultIds(ai_models)
             /\ result'.ret = NULL]_vars

\* ---- C23 ----
\* C23: whenever setAsDefault(id) returns true, the configuration with that
\* id exists and is the one and only default, also when id names no
\* existing configuration.
C23_TrueMeansSoleDefault ==
    (result.op = "setAsDefault" /\ result.ret)
        => /\ result.id \in DOMAIN ai_models
           /\ DefaultIds(ai_models) = {result.id}

\* ---- C24 ----
\* C24: after any sequence of addModel, setAsDefault and deleteModel calls
\* (all writes succeeding), a store holding at least one configuration has a
\* default, so that generateCompletion without a modelId does not fail with
\* the no-model error while configurations exist.
C24_DefaultExistsWhileConfigured ==
    (writesOk /\ DOMAIN ai_models # {})
        => /\ DefaultIds(ai_models) # {}
           /\ (Completed /\ ~Truthy(result.modelId) /\ result.okRead)
                => ~(result.outcome = "error" /\ result.error = NoModelError)

\* ---- C25 ----
WithoutModelId == Completed /\ ~Truthy(result.modelId)

\* C25 as claimed: whenever some configuration is the default,
\* generateCompletion without a modelId resolves a default configuration,
\* also when the single-row default query returns an error.
C25_ResolvesSomeDefault ==
    (WithoutModelId /\ DefaultIds(ai_models) # {})
        => result.model \in DefaultIds(ai_models)

\* C25 amended: whenever some configuration is the default it is the only
\* one; generateCompletion without a modelId resolves it when the default
\* query succeeds, and fails with the no-model error, issuing no request,
\* when the query returns an error.
C25_ResolvesDefaultUnlessQueryFails ==
    (WithoutModelId /\ DefaultIds(ai_models) # {})
        => /\ Cardinality(DefaultIds(ai_models)) = 1
           /\ result.okRead => result.model \in DefaultIds(ai_models)
           /\ ~result.okRead
                => /\ result.model = NULL
                   /\ result.outcome = "error"
                   /\ result.error = NoModelError
                   /\ result.fetched = <<>>

\* the default query fails while a default exists beside another row
C25_Witness ==
    /\ WithoutModelId /\ ~result.okRead
    /\ DefaultIds(ai_models) # {}
    /\ DOMAIN ai_models # DefaultIds(ai_models)
    /\ result.error = NoModelError

\* ---- C22 ----
NoDanglingReference ==
    /\ \A r \in papers_table : r.search_id \in searches
    /\ \A l \in batch_pdfs : /\ l.batch_id \in pdf_batches
                             /\ l.pdf_id \in PdfIdsOf(pdf_uploads)

Deleting == deletion.pc # "idle"
Issued(step) == \E n \in 1..Len(deletion.issued) : deletion.issued[n] = step
ChildDeleteFailed == "children" \in deletion.failed
ParentKept == ~Issued("parent") /\ deletion.id \in Listed(deletion.type)
DeleteOrder == <<"select", "children", "parent", "pdfs">>
InDeleteOrder ==
    \A m, n \in 1..Len(deletion.issued) :
        m < n => \E i, j \in 1..Len(DeleteOrder) :
                    /\ i < j
                    /\ DeleteOrder[i] = deletion.issued[m]
                    /\ DeleteOrder[j] = deletion.issued[n]

\* C22 as claimed: the deletes run children first, no papers row references
\* a missing search and no membership row a missing batch or document in
\* any state, and the parent is not deleted when the child delete failed.
C22_ParentKeptWhenChildDeleteFails ==
    /\ NoDanglingReference
    /\ Deleting => /\ InDeleteOrder
                   /\ ChildDeleteFailed => ParentKept

\* C22 amended: the deletes run children first and no reference dangles in
\* any state; after a failed child delete only handleDeleteResult, for a
\* search or a batch, leaves the parent alone; handleDelete, and
\* handleDeleteResult for a document, go on to delete the parent, and that
\* delete takes the remaining child rows with it.
C22_NoDanglingReference ==
    /\ NoDanglingReference
    /\ Deleting
         => /\ InDeleteOrder
            /\ (ChildDeleteFailed /\ deletion.handler = "results"
                    /\ deletion.type # "pdf")
                 => ParentKept /\ deletion.pc = "done"
            /\ (ChildDeleteFailed
                    /\ ~(deletion.handler = "results" /\ deletion.type # "pdf"))
                 => /\ deletion.pc \in {"parent", "pdfs", "done"}
                    /\ deletion.pc # "parent" => Issued("parent")
                    /\ (Issued("parent") /\ "parent" \notin deletion.failed)
                         => /\ deletion.id \notin Listed(deletion.type)
                            /\ deleteChildren(Tables, deletion.type,
                                              deletion.id) = Tables

\* the papers delete failed, handleDelete deleted the search all the same
\* and its papers went with it
C22_Witness ==
    /\ deletion.pc = "done" /\ deletion.handler = "history"
    /\ deletion.type = "search"
    /\ ChildDeleteFailed /\ deletion.cascaded
    /\ searches = {} /\ papers_table = {}

\* ---- C26 ----
\* C26: in a batch upload a pdf_uploads row and its batch_pdfs link exist
\* only for files whose processing ended with status 'success'; a file whose
\* text extraction failed leaves no row and no link.
C26_RowsOnlyForProcessedFiles ==
    \A k \in 1..Len(updatedFiles) :
        "extraction" \in failures[k]
            => /\ RowsOf(updatedFiles[k].name) = {}
               /\ ~Persisted(updatedFiles[k].name)

\* ---- C27 ----
\* C27: when the metadata completion response contains a year, the record
\* processPDF returns, and the pdf_uploads row built from it, carry that
\* year.
C27_YearCarried ==
    (Processed /\ ~result.thrown
       /\ Returned(result.respMeta) /\ Returned(result.respContent)
       /\ "year" \in DOMAIN parseFields(AnswerText(result.respMeta))) =>
        LET answered == parseFields(AnswerText(result.respMeta)).year
            row == pdfUploadRow(result.fileName, Some(result.value),
                                result.year)
        IN  /\ result.value.year = answered
            /\ row.year = answered

\* ---- C28 ----
FinalStatuses == {"Research completed", "Research failed"}

\* C28: within one processQuery call the percentages reported never
\* decrease, the interval's reports never exceed 99, and nothing is reported
\* after the final report (100%, completed or failed).
C28_ProgressMonotonic ==
    \A c \in Queries :
        LET u == queries[c].updates
        IN  /\ \A m, n \in 1..Len(u) :
                  m < n => u[m].percentage <= u[n].percentage
            /\ \A n \in 1..Len(u) :
                  /\ u[n].status \notin FinalStatuses => u[n].percentage <= 99
                  /\ u[n].status \in FinalStatuses
                       => n = Len(u) /\ u[n].percentage = 100

\* ---- C29 ----
DiscoveryEnds(c) == queries[c].pc = "extracting" /\ queries'[c].pc # "extracting"

\* C29: the completion of a processQuery call does not stop the progress
\* interval of another call.
C29_StopsOnlyOwnTimer ==
    [][\A c, d \in Queries :
          (c # d /\ DiscoveryEnds(c) /\ d \in intervals) => d \in intervals']_vars

\* ---- C30 ----
SaveResolves == saveCall.pc # "done" /\ saveCall'.pc = "done"
CalledDiscovery(c) == queries[c].discovery # "none" \/ queries[c].pc = "extracting"

\* C30: once a saveApiKey(k) has resolved after a successful write, getApiKey
\* returns k and every processQuery started afterwards calls the discovery
\* service through a client built with k (or with a key saved since); a
\* saveApiKey whose write failed leaves the cached key and the client as
\* they were.
C30_SavedKeyInEffect ==
    /\ [](/\ lastSaved # NULL
             => getApiKey(cachedApiKey, firecrawl_api_keys, TRUE).key = lastSaved
          /\ \A c \in Queries :
                (CalledDiscovery(c) /\ NULL \notin queries[c].keysSince)
                    => queries[c].client \in queries[c].keysSince)
    /\ [][(SaveResolves /\ ~saveCall'.saved)
             => /\ cachedApiKey' = cachedApiKey
                /\ firecrawlApp' = firecrawlApp]_vars
====
